---- MODULE Spec2Model ----
(***************************************************************************)
(* Library-management REST backend: the query utilities (utils/dbUtils.js) *)
(* and the members, books and loans routers, as state machines over the    *)
(* document store.                                                         *)
(*                                                                         *)
(* JavaScript values are records [t, s, n]: t is the type tag, s the       *)
(* characters of a string (a sequence of one-character strings), n the     *)
(* value of a number or boolean.  NaN and +/-Infinity are numbers with     *)
(* their own tags, as they behave differently in arithmetic and in JSON.   *)
(***************************************************************************)
EXTENDS Integers, Sequences, FiniteSets, TLC

VARIABLES
    queryParams,    \* buildFilter: the request's query mapping
    allowedFields,  \* buildFilter: the allow-list (an array of field names)
    filterOut,      \* buildFilter: the returned filter object, NotCalled before the call
    pageQuery,      \* getPaginationParams: the query object {page, limit}
    pageOut,        \* getPaginationParams: the returned {page, limit, skip}
    fmtArgs,        \* formatPaginationResponse: the arguments (data, total, page, limit)
    fmtOut,         \* formatPaginationResponse: the returned envelope
    pc,             \* position of the caller: "call" before, "return" after
    books,          \* the books collection, in insertion (createdAt) order
    bookReq,        \* GET /books: the query of the last request
    bookRes,        \* GET /books: the response to the last request
    members,        \* the members collection, in insertion order
    nextId,         \* the identifier the next created member gets
    reg,            \* the registration requests in flight, per connection
    memberReq,      \* the last single-step members request: [op, id]
    memberRes,      \* the response to it: [status, message, member, data]
    bookOpReq,      \* the last /books/:id or POST /books request: [op, id]
    bookOpRes,      \* the response to it: [status, book]
    loans,          \* the loans collection, in insertion order
    nextLoanId,     \* the identifier the next created loan gets
    loanReq,        \* the last loans request: [op, id]
    loanRes,        \* the response to it: [status, loan, data, total, stats]
    nextBookId,     \* the identifier the next created book gets
    server,         \* the process: [conn, listening, exit, sigint]
    arrivals        \* client connection attempts so far: [accepted, refused]

vars == <<queryParams, allowedFields, filterOut, pageQuery, pageOut, fmtArgs, fmtOut, pc,
          books, bookReq, bookRes, members, nextId, reg, memberReq, memberRes,
          bookOpReq, bookOpRes, loans, nextLoanId, loanReq, loanRes,
          nextBookId, server, arrivals>>

filterVars == <<queryParams, allowedFields, filterOut>>
paramVars == <<pageQuery, pageOut>>
formatVars == <<fmtArgs, fmtOut>>
utilVars == <<queryParams, allowedFields, filterOut, pageQuery, pageOut, fmtArgs, fmtOut, pc>>
bookVars == <<books, bookReq, bookRes>>
memberVars == <<members, nextId, reg, memberReq, memberRes>>
bookOpVars == <<bookOpReq, bookOpRes, nextBookId>>
serverVars == <<server, arrivals>>
loanVars == <<loans, nextLoanId, loanReq, loanRes>>
storeVars == <<bookVars, memberVars, bookOpVars, loanVars>>

-----------------------------------------------------------------------------
(* JavaScript values *)

Undefined == [t |-> "undefined", s |-> <<>>, n |-> 0]
Null == [t |-> "null", s |-> <<>>, n |-> 0]
NaN == [t |-> "NaN", s |-> <<>>, n |-> 0]
PosInfinity == [t |-> "Infinity", s |-> <<>>, n |-> 1]
NegInfinity == [t |-> "Infinity", s |-> <<>>, n |-> -1]
Str(chars) == [t |-> "string", s |-> chars, n |-> 0]
Num(k) == [t |-> "number", s |-> <<>>, n |-> k]
Bool(b) == [t |-> "boolean", s |-> <<>>, n |-> IF b THEN 1 ELSE 0]

\* The marker of a result that has not been computed yet.
NotCalled == [t |-> "not-called", s |-> <<>>, n |-> 0]

IsFinite(v) == v.t = "number"

\* The strings the handlers compare against.
StrTrue == Str(<<"t", "r", "u", "e">>)
StrFalse == Str(<<"f", "a", "l", "s", "e">>)
StrEmpty == Str(<<>>)

\* JavaScript truthiness (ToBoolean).
Truthy(v) ==
    CASE v.t = "undefined" -> FALSE
      [] v.t = "null" -> FALSE
      [] v.t = "NaN" -> FALSE
      [] v.t = "string" -> Len(v.s) > 0
      [] v.t = "number" -> v.n # 0
      [] v.t = "boolean" -> v.n = 1
      [] OTHER -> TRUE

\* An object is a function from its own property names to values.
EmptyObject == [k \in {} |-> Undefined]
Get(obj, key) == IF key \in DOMAIN obj THEN obj[key] ELSE Undefined
Put(obj, key, value) ==
    [k \in (DOMAIN obj) \cup {key} |-> IF k = key THEN value ELSE obj[k]]

\* All sequences over S of length at most n.
SeqsUpTo(S, n) == UNION {[1..k -> S] : k \in 0..n}

-----------------------------------------------------------------------------
(* utils/dbUtils.js: buildFilter *)

RECURSIVE buildFilterFrom(_, _, _, _)
buildFilterFrom(qp, allowed, i, filter) ==
    IF i > Len(allowed) THEN filter
    ELSE LET field == allowed[i]
             value == Get(qp, field)
             next == IF value # Undefined
                     THEN IF value = StrTrue THEN Put(filter, field, Bool(TRUE))
                          ELSE IF value = StrFalse THEN Put(filter, field, Bool(FALSE))
                          ELSE Put(filter, field, value)
                     ELSE filter
         IN buildFilterFrom(qp, allowed, i + 1, next)

\* Faulty variant: a buildFilter that forgets the boolean coercion.
buildFilterNoCoerce(qp, allowed) ==
    [f \in {allowed[i] : i \in DOMAIN allowed} \cap DOMAIN qp |-> qp[f]]

buildFilter(qp, allowed) == buildFilterFrom(qp, allowed, 1, EmptyObject)

\* buildSearchFilter: no constraint for a falsy term, otherwise one $or of a
\* case-insensitive regex per search field.  The filter keeps the term under
\* "$or"; the fields are the ones the resource's match tests.
buildSearchFilter(searchTerm, searchFields) ==
    IF ~Truthy(searchTerm) \/ searchFields = <<>> THEN EmptyObject
    ELSE Put(EmptyObject, "$or", searchTerm)

-----------------------------------------------------------------------------
(* JavaScript number conversions *)

Digits == {"0", "1", "2", "3", "4", "5", "6", "7", "8", "9"}
WhiteSpace == {" "}
Signs == {"-", "+"}

DigitVal(c) ==
    CASE c = "0" -> 0 [] c = "1" -> 1 [] c = "2" -> 2 [] c = "3" -> 3
      [] c = "4" -> 4 [] c = "5" -> 5 [] c = "6" -> 6 [] c = "7" -> 7
      [] c = "8" -> 8 [] c = "9" -> 9

RECURSIVE SkipWhiteSpace(_)
SkipWhiteSpace(s) ==
    IF s # <<>> /\ Head(s) \in WhiteSpace THEN SkipWhiteSpace(Tail(s)) ELSE s

\* The length of the longest prefix of s made of decimal digits.
RECURSIVE DigitPrefixLen(_)
DigitPrefixLen(s) ==
    IF s # <<>> /\ Head(s) \in Digits THEN 1 + DigitPrefixLen(Tail(s)) ELSE 0

\* The value of a sequence of decimal digits.
RECURSIVE DecimalValue(_)
DecimalValue(s) ==
    IF s = <<>> THEN 0 ELSE 10 * DecimalValue(SubSeq(s, 1, Len(s) - 1)) + DigitVal(s[Len(s)])

\* The string a value is converted to (ToString), for the values parseInt is given.
RECURSIVE DecimalDigits(_)
DecimalDigits(k) ==
    IF k < 10 THEN <<CHOOSE c \in Digits : DigitVal(c) = k>>
    ELSE Append(DecimalDigits(k \div 10), CHOOSE c \in Digits : DigitVal(c) = k % 10)

ToStringChars(v) ==
    CASE v.t = "string" -> v.s
      [] v.t = "number" -> IF v.n < 0 THEN <<"-">> \o DecimalDigits(-v.n) ELSE DecimalDigits(v.n)
      [] v.t = "undefined" -> <<"u", "n", "d", "e", "f", "i", "n", "e", "d">>
      [] v.t = "null" -> <<"n", "u", "l", "l">>
      [] v.t = "NaN" -> <<"N", "a", "N">>
      [] v.t = "boolean" -> IF v.n = 1 THEN StrTrue.s ELSE StrFalse.s
      [] OTHER -> <<"I", "n", "f", "i", "n", "i", "t", "y">>

\* parseInt(v): leading white space is skipped, an optional sign is read, then
\* the longest prefix of decimal digits; NaN when that prefix is empty.
parseInt(v) ==
    LET trimmed == SkipWhiteSpace(ToStringChars(v))
        signed == trimmed # <<>> /\ Head(trimmed) \in Signs
        sign == IF signed /\ Head(trimmed) = "-" THEN -1 ELSE 1
        body == IF signed THEN Tail(trimmed) ELSE trimmed
        k == DigitPrefixLen(body)
    IN IF k = 0 THEN NaN ELSE Num(sign * DecimalValue(SubSeq(body, 1, k)))

\* a || b on numbers: b when a is falsy (0 or NaN).
OrElse(a, b) == IF Truthy(a) THEN a ELSE b

MathMax(a, b) == IF a.t = "NaN" \/ b.t = "NaN" THEN NaN ELSE IF a.n >= b.n THEN a ELSE b
MathMin(a, b) == IF a.t = "NaN" \/ b.t = "NaN" THEN NaN ELSE IF a.n <= b.n THEN a ELSE b

\* Math.ceil(a / b) for integers a and b with b # 0.
CeilQuotient(a, b) == IF b > 0 THEN -((-a) \div b) ELSE -(a \div (-b))

\* Math.ceil(a / b) on JavaScript numbers.
MathCeilDiv(a, b) ==
    IF a.t = "NaN" \/ b.t = "NaN" THEN NaN
    ELSE IF a.t = "Infinity" /\ b.t = "Infinity" THEN NaN
    ELSE IF a.t = "Infinity" THEN (IF b.n >= 0 THEN a ELSE [a EXCEPT !.n = -a.n])
    ELSE IF b.t = "Infinity" THEN Num(IF (a.n > 0 /\ b.n > 0) \/ (a.n < 0 /\ b.n < 0) THEN 1 ELSE 0)
    ELSE IF b.n = 0 THEN (IF a.n = 0 THEN NaN ELSE IF a.n > 0 THEN PosInfinity ELSE NegInfinity)
    ELSE Num(CeilQuotient(a.n, b.n))

-----------------------------------------------------------------------------
(* utils/dbUtils.js: getPaginationParams, formatPaginationResponse *)

DefaultPage == 1
DefaultLimit == 10
MaxLimit == 100

\* Faulty variant: the limit is not clamped from above.
getPaginationParamsNoClamp(query) ==
    LET page == MathMax(Num(1), OrElse(parseInt(Get(query, "page")), Num(DefaultPage)))
        limit == MathMax(Num(1), OrElse(parseInt(Get(query, "limit")), Num(DefaultLimit)))
    IN [page |-> page, limit |-> limit, skip |-> Num((page.n - 1) * limit.n)]

getPaginationParams(query) ==
    LET page == MathMax(Num(1), OrElse(parseInt(Get(query, "page")), Num(DefaultPage)))
        limit == MathMin(Num(MaxLimit),
                         MathMax(Num(1), OrElse(parseInt(Get(query, "limit")), Num(DefaultLimit))))
        skip == Num((page.n - 1) * limit.n)
    IN [page |-> page, limit |-> limit, skip |-> skip]

\* Faulty variant: the page count is rounded down.
formatPaginationResponseFloor(data, total, page, limit) ==
    [data |-> data,
     pagination |-> [total |-> total, page |-> page, limit |-> limit,
                     pages |-> Num(total.n \div limit.n)]]

formatPaginationResponse(data, total, page, limit) ==
    [data |-> data,
     pagination |-> [total |-> total, page |-> page, limit |-> limit,
                     pages |-> MathCeilDiv(total, limit)]]

-----------------------------------------------------------------------------
(* Specification of buildFilter: every query mapping and allow-list within *)
(* the bounds, then the call.                                              *)

MaxAllowed == 2

QueryKeys == {"category", "available", "role"}
QueryValues == {StrTrue, StrFalse, StrEmpty, Str(<<"F">>)}
QueryObjects == UNION {[K -> QueryValues] : K \in SUBSET QueryKeys}

FilterIdle == queryParams = EmptyObject /\ allowedFields = <<>> /\ filterOut = EmptyObject
ParamsIdle == pageQuery = EmptyObject /\ pageOut = NotCalled
FormatIdle == fmtArgs = NotCalled /\ fmtOut = NotCalled
UtilIdle == FilterIdle /\ ParamsIdle /\ FormatIdle /\ pc = "idle"
NoPagination == [total |-> Undefined, page |-> Undefined, limit |-> Undefined, pages |-> Undefined]
NoResponse == [status |-> 0, data |-> <<>>, pagination |-> NoPagination]
BooksIdle == books = <<>> /\ bookReq = EmptyObject /\ bookRes = NoResponse
RegProcs == {1, 2}
IdleSlot == [pc |-> "idle", kind |-> "", local |-> EmptyObject, status |-> 0, error |-> ""]
NoMemberRequest == [op |-> "", id |-> 0]
NoMemberResponse ==
    [status |-> 0, message |-> "", member |-> <<>>, data |-> <<>>, pagination |-> NoPagination]
MembersIdle ==
    /\ members = <<>> /\ nextId = 1 /\ reg = [p \in RegProcs |-> IdleSlot]
    /\ memberReq = NoMemberRequest /\ memberRes = NoMemberResponse
NoDocRequest == [op |-> "", id |-> 0]
NoBookResponse == [status |-> 0, book |-> <<>>]
BookOpsIdle == bookOpReq = NoDocRequest /\ bookOpRes = NoBookResponse /\ nextBookId = Len(books) + 1
\* The process once it serves requests: connected and listening.
Serving == [conn |-> "connected", listening |-> TRUE, exit |-> -1, sigint |-> FALSE]
NoArrivals == [accepted |-> 0, refused |-> 0]
ServerUp == server = Serving /\ arrivals = NoArrivals
NoStats == [activeLoans |-> <<>>, returnedLoans |-> <<>>, overdueLoans |-> <<>>]
NoLoanResponse == [status |-> 0, loan |-> <<>>, data |-> <<>>, total |-> 0, stats |-> NoStats]
LoansIdle ==
    /\ loans = <<>> /\ nextLoanId = 1
    /\ loanReq = NoDocRequest /\ loanRes = NoLoanResponse
StoreIdle == BooksIdle /\ MembersIdle /\ BookOpsIdle /\ LoansIdle /\ ServerUp

InitFilter ==
    /\ queryParams \in QueryObjects
    /\ allowedFields \in SeqsUpTo(QueryKeys, MaxAllowed)
    /\ filterOut = EmptyObject
    /\ pc = "call"
    /\ ParamsIdle /\ FormatIdle /\ StoreIdle

BuildFilterCall ==
    /\ pc = "call"
    /\ filterOut' = buildFilter(queryParams, allowedFields)
    /\ pc' = "return"
    /\ UNCHANGED <<queryParams, allowedFields, paramVars, formatVars, storeVars, serverVars>>

NextFilter == BuildFilterCall

SpecFilter == InitFilter /\ [][NextFilter]_vars

\* The allow-listed fields, as a set.
AllowedSet == {allowedFields[i] : i \in DOMAIN allowedFields}

\* C1: buildFilter returns an object whose keys are exactly the allow-listed
\* fields present in the input; "true" and "false" become booleans, every other
\* value is unchanged, and no key outside the allow-list appears.
C1_FilterExact ==
    pc = "return" =>
        /\ DOMAIN filterOut = {f \in AllowedSet : Get(queryParams, f) # Undefined}
        /\ DOMAIN filterOut \subseteq AllowedSet
        /\ \A f \in DOMAIN filterOut :
              /\ queryParams[f] = StrTrue => filterOut[f] = Bool(TRUE)
              /\ queryParams[f] = StrFalse => filterOut[f] = Bool(FALSE)
              /\ queryParams[f] \notin {StrTrue, StrFalse} => filterOut[f] = queryParams[f]

\* A call that coerces one field, passes one through and ignores a third.
C1_Witness ==
    /\ pc = "return"
    /\ \E f, g, h \in QueryKeys :
          /\ f \in DOMAIN filterOut /\ queryParams[f] = StrTrue /\ filterOut[f] = Bool(TRUE)
          /\ g \in DOMAIN filterOut /\ filterOut[g] = Str(<<"F">>)
          /\ h \in DOMAIN queryParams /\ h \notin AllowedSet /\ h \notin DOMAIN filterOut

-----------------------------------------------------------------------------
(* Specification of getPaginationParams: every page and limit input within *)
(* the bounds (absent, or a string over PageChars), then the call.         *)

MaxPageLen == 2
MaxLimitLen == 3

PageChars == {"-", "0", "1", "a"}
PageInputs(n) == {Undefined} \cup {Str(s) : s \in SeqsUpTo(PageChars, n)}

\* The query objects {page, limit}; an absent key reads as undefined.
PageQueries ==
    {[k \in {x \in {"page", "limit"} : (IF x = "page" THEN p ELSE l) # Undefined}
        |-> IF k = "page" THEN p ELSE l] :
     p \in PageInputs(MaxPageLen), l \in PageInputs(MaxLimitLen)}

InitParams ==
    /\ pageQuery \in PageQueries
    /\ pageOut = NotCalled
    /\ pc = "call"
    /\ FilterIdle /\ FormatIdle /\ StoreIdle

GetPaginationParamsCall ==
    /\ pc = "call"
    /\ pageOut' = getPaginationParams(pageQuery)
    /\ pc' = "return"
    /\ UNCHANGED <<pageQuery, filterVars, formatVars, storeVars, serverVars>>

NextParams == GetPaginationParamsCall

SpecParams == InitParams /\ [][NextParams]_vars

\* An input is numeric when, after an optional sign, it starts with a digit.
StartsWithInteger(v) ==
    /\ v.t = "string"
    /\ \/ Len(v.s) >= 1 /\ v.s[1] \in Digits
       \/ Len(v.s) >= 2 /\ v.s[1] \in Signs /\ v.s[2] \in Digits

\* C2: for every page and limit input getPaginationParams returns numbers with
\* page >= 1, 1 <= limit <= 100 and skip = (page - 1) * limit; an absent or
\* non-numeric input resolves to page 1, respectively limit 10.
C2_PaginationResolved ==
    pc = "return" =>
        /\ IsFinite(pageOut.page) /\ IsFinite(pageOut.limit) /\ IsFinite(pageOut.skip)
        /\ pageOut.page.n >= 1
        /\ pageOut.limit.n >= 1 /\ pageOut.limit.n <= 100
        /\ pageOut.skip.n = (pageOut.page.n - 1) * pageOut.limit.n
        /\ ~StartsWithInteger(Get(pageQuery, "page")) => pageOut.page.n = 1
        /\ ~StartsWithInteger(Get(pageQuery, "limit")) => pageOut.limit.n = 10

\* A call with a negative page and a limit above the maximum.
C2_Witness ==
    /\ pc = "return"
    /\ Get(pageQuery, "page") = Str(<<"-", "1">>)
    /\ Get(pageQuery, "limit") = Str(<<"1", "0", "1">>)
    /\ pageOut = [page |-> Num(1), limit |-> Num(100), skip |-> Num(0)]

-----------------------------------------------------------------------------
(* Specification of formatPaginationResponse: every result sequence, total *)
(* and resolved page and limit within the bounds, then the call.           *)

MaxTotal == 25
MaxPageNo == 2
MaxData == 2

InitFormat ==
    /\ fmtArgs \in [data : SeqsUpTo({"doc"}, MaxData),
                    total : {Num(k) : k \in 0..MaxTotal},
                    page : {Num(k) : k \in 1..MaxPageNo},
                    limit : {Num(k) : k \in 1..MaxLimit}]
    /\ fmtOut = NotCalled
    /\ pc = "call"
    /\ FilterIdle /\ ParamsIdle /\ StoreIdle

FormatPaginationResponseCall ==
    /\ pc = "call"
    /\ fmtOut' = formatPaginationResponse(fmtArgs.data, fmtArgs.total, fmtArgs.page, fmtArgs.limit)
    /\ pc' = "return"
    /\ UNCHANGED <<fmtArgs, filterVars, paramVars, storeVars, serverVars>>

NextFormat == FormatPaginationResponseCall

SpecFormat == InitFormat /\ [][NextFormat]_vars

\* C3: formatPaginationResponse returns {data, pagination: {total, page, limit,
\* pages}} with data, total, page and limit unchanged and pages the least
\* integer p with p * limit >= total: 0 for total 0, 3 for total 25 and limit 10.
C3_Envelope ==
    pc = "return" =>
        /\ fmtOut.data = fmtArgs.data
        /\ fmtOut.pagination.total = fmtArgs.total
        /\ fmtOut.pagination.page = fmtArgs.page
        /\ fmtOut.pagination.limit = fmtArgs.limit
        /\ IsFinite(fmtOut.pagination.pages)
        /\ fmtOut.pagination.pages.n * fmtArgs.limit.n >= fmtArgs.total.n
        /\ (fmtOut.pagination.pages.n - 1) * fmtArgs.limit.n < fmtArgs.total.n
        /\ fmtArgs.total.n = 0 => fmtOut.pagination.pages.n = 0
        /\ fmtArgs.total.n = 25 /\ fmtArgs.limit.n = 10 => fmtOut.pagination.pages.n = 3

\* The call with total 25 and limit 10.
C3_Witness ==
    /\ pc = "return"
    /\ fmtArgs.total = Num(25) /\ fmtArgs.limit = Num(10)
    /\ fmtOut.pagination.pages = Num(3)

-----------------------------------------------------------------------------
(* JavaScript arithmetic on query strings, strings and patterns *)

\* ToNumber of a value made of signs, digits and letters: the empty string is 0,
\* an optionally signed run of digits is its value, anything else is NaN.
ToNumber(v) ==
    CASE v.t = "string" ->
            LET trimmed == SkipWhiteSpace(v.s)
                signed == trimmed # <<>> /\ Head(trimmed) \in Signs
                sign == IF signed /\ Head(trimmed) = "-" THEN -1 ELSE 1
                body == IF signed THEN Tail(trimmed) ELSE trimmed
            IN IF trimmed = <<>> THEN Num(0)
               ELSE IF body # <<>> /\ DigitPrefixLen(body) = Len(body)
                    THEN Num(sign * DecimalValue(body))
                    ELSE NaN
      [] v.t = "undefined" -> NaN
      [] v.t = "null" -> Num(0)
      [] v.t = "boolean" -> Num(v.n)
      [] OTHER -> v

\* a - b and a * b on finite numbers and NaN.
Minus(a, b) == IF a.t = "number" /\ b.t = "number" THEN Num(a.n - b.n) ELSE NaN
Times(a, b) == IF a.t = "number" /\ b.t = "number" THEN Num(a.n * b.n) ELSE NaN

\* JSON.stringify writes NaN and the infinities as null, undefined as nothing.
Json(v) == IF v.t \in {"NaN", "Infinity"} THEN Null ELSE v

UpperCase == <<"A", "B", "C", "D", "E", "F", "G", "H", "I", "J", "K", "L", "M",
               "N", "O", "P", "Q", "R", "S", "T", "U", "V", "W", "X", "Y", "Z">>
LowerCase == <<"a", "b", "c", "d", "e", "f", "g", "h", "i", "j", "k", "l", "m",
               "n", "o", "p", "q", "r", "s", "t", "u", "v", "w", "x", "y", "z">>

ToLowerChar(c) ==
    IF \E i \in DOMAIN UpperCase : UpperCase[i] = c
    THEN LowerCase[CHOOSE i \in DOMAIN UpperCase : UpperCase[i] = c]
    ELSE c

ToLowerCase(chars) == [i \in DOMAIN chars |-> ToLowerChar(chars[i])]

Reverse(seq) == [i \in DOMAIN seq |-> seq[Len(seq) + 1 - i]]

\* { $regex: pattern, $options: 'i' } for patterns of literal characters and
\* ".", which matches any one character: the pattern matches at some position.
RegexCharMatches(pc1, c) == pc1 = "." \/ ToLowerChar(pc1) = ToLowerChar(c)

RegexMatchesI(pattern, text) ==
    \E i \in 1..(Len(text) - Len(pattern) + 1) :
        \A j \in 1..Len(pattern) : RegexCharMatches(pattern[j], text[i + j - 1])

\* A field matches { $regex, $options: 'i' } when it is a string the pattern matches.
FieldMatchesRegex(value, pattern) ==
    value.t = "string" /\ RegexMatchesI(pattern.s, value.s)

-----------------------------------------------------------------------------
(* The store's find(filter).sort().skip(skip).limit(limit) and the paginated *)
(* response the list routes build around it.                                *)

\* find().skip(skip).limit(limit) over the sorted matching documents.  The store
\* rejects a negative skip; a limit of 0 is no limit and a negative limit is its
\* absolute value.  A NaN skip or limit is either rejected or read as 0: nanAsZero.
StoreFind(sorted, skip, limit, nanAsZero) ==
    LET bad == \/ skip.t = "number" /\ skip.n < 0
               \/ skip.t = "Infinity" \/ limit.t = "Infinity"
               \/ (skip.t = "NaN" \/ limit.t = "NaN") /\ ~nanAsZero
        from == IF skip.t = "number" THEN skip.n ELSE 0
        lim == IF limit.t = "number" THEN limit.n ELSE 0
        count == IF lim = 0 THEN Len(sorted) ELSE IF lim < 0 THEN -lim ELSE lim
        upto == IF from + count < Len(sorted) THEN from + count ELSE Len(sorted)
    IN IF bad THEN [ok |-> FALSE, docs |-> <<>>]
       ELSE [ok |-> TRUE, docs |-> SubSeq(sorted, from + 1, upto)]

\* The skip the list routes compute: (page - 1) * limit on the raw query values,
\* page and limit defaulting to the numbers 1 and 10 when absent.
ListPage(query) == IF Get(query, "page") = Undefined THEN Num(DefaultPage) ELSE Get(query, "page")
ListLimit(query) == IF Get(query, "limit") = Undefined THEN Num(DefaultLimit) ELSE Get(query, "limit")
ListSkip(query) == Times(Minus(ToNumber(ListPage(query)), Num(1)), ToNumber(ListLimit(query)))

\* The body shared by the list routes: page and limit default to the numbers 1
\* and 10 when absent, skip = (page - 1) * limit on the raw values, the query is
\* limited by parseInt(limit), and the envelope reports parseInt(page),
\* parseInt(limit) and Math.ceil(total / limit); a store error is answered 500.
ListResponse(sorted, query, nanAsZero) ==
    LET page == ListPage(query)
        limit == ListLimit(query)
        skip == ListSkip(query)
        found == StoreFind(sorted, skip, parseInt(limit), nanAsZero)
        total == Num(Len(sorted))
    IN IF ~found.ok
       THEN [status |-> 500, data |-> <<>>, pagination |-> NoPagination]
       ELSE [status |-> 200, data |-> found.docs,
             pagination |-> [total |-> total,
                             page |-> Json(parseInt(page)),
                             limit |-> Json(parseInt(limit)),
                             pages |-> Json(MathCeilDiv(total, ToNumber(limit)))]]

-----------------------------------------------------------------------------
(* routes/books.js: GET /books *)

\* The filter of GET /books: category when truthy, available compared with
\* 'true' when present, and the search pattern over title and author.
BookFilter(query) ==
    LET category == Get(query, "category")
        available == Get(query, "available")
        search == Get(query, "search")
        f1 == IF Truthy(category) THEN Put(EmptyObject, "category", category) ELSE EmptyObject
        f2 == IF available # Undefined THEN Put(f1, "available", Bool(available = StrTrue)) ELSE f1
    IN IF Truthy(search) THEN Put(f2, "$or", search) ELSE f2

\* A book matches the filter: every field constraint holds, and with a search
\* pattern the title or the author matches it.
BookMatches(book, filter) ==
    /\ "category" \in DOMAIN filter => book.category = filter["category"]
    /\ "available" \in DOMAIN filter => book.available = filter["available"]
    /\ "$or" \in DOMAIN filter =>
          \/ FieldMatchesRegex(book.title, filter["$or"])
          \/ FieldMatchesRegex(book.author, filter["$or"])

\* The arrangements of a sequence of documents.
Arrangements(docs) ==
    {[i \in DOMAIN docs |-> docs[p[i]]] :
        p \in {q \in [DOMAIN docs -> DOMAIN docs] :
                  \A i, j \in DOMAIN docs : q[i] = q[j] => i = j}}

\* Book.find(filter).sort({ createdAt: -1 }): the orders the store may return.
\* The sort key is the only key, so documents created at the same instant
\* come in an order the store chooses anew for each query.
FindBooks(filter) ==
    LET Test(b) == BookMatches(b, filter)
    IN {s \in Arrangements(SelectSeq(books, Test)) :
           \A i, j \in DOMAIN s : i < j => s[i].createdAt >= s[j].createdAt}

GetBooks(query, nanAsZero) ==
    /\ bookReq' = query
    /\ \E sorted \in FindBooks(BookFilter(query)) :
          bookRes' = ListResponse(sorted, query, nanAsZero)
    /\ UNCHANGED <<books, utilVars, serverVars, memberVars, bookOpVars, loanVars>>

-----------------------------------------------------------------------------
(* Specification of GET /books: a collection within the bounds, then any    *)
(* sequence of list requests.                                               *)

MaxBooks == 2

Book(title, author, category, available) ==
    [title |-> Str(title), author |-> Str(author), isbn |-> Undefined,
     category |-> category, available |-> Bool(available), quantity |-> Num(1)]

BookShapes ==
    {Book(<<"H", "a">>, <<"b">>, Str(<<"F">>), TRUE),
     Book(<<"b">>, <<"h">>, Str(<<"F">>), FALSE),
     Book(<<"c">>, <<"c">>, Str(<<"S">>), TRUE),
     Book(<<"c">>, <<"b">>, Undefined, TRUE)}

\* A collection: documents in insertion order, identified by their position.
WithIds(shapes) ==
    [i \in DOMAIN shapes |->
        [_id |-> i, title |-> shapes[i].title, author |-> shapes[i].author,
         isbn |-> shapes[i].isbn, category |-> shapes[i].category,
         available |-> shapes[i].available, quantity |-> shapes[i].quantity,
         createdAt |-> i]]

\* The same documents, all created at one instant.
AtOneInstant(coll) == [i \in DOMAIN coll |-> [coll[i] EXCEPT !.createdAt = 1]]

BookCollections ==
    {WithIds(shapes) : shapes \in SeqsUpTo(BookShapes, MaxBooks)}
    \cup {AtOneInstant(WithIds(shapes)) : shapes \in SeqsUpTo(BookShapes, MaxBooks)}

ListPages == {Undefined, StrEmpty, Str(<<"0">>), Str(<<"1">>), Str(<<"2">>),
              Str(<<"-", "1">>), Str(<<"a">>)}
ListLimits == {Undefined, Str(<<"0">>), Str(<<"1">>), Str(<<"5">>), Str(<<"1", "0", "1">>),
               Str(<<"-", "1">>), Str(<<"a">>)}
BookCategories == {Undefined, Str(<<"F">>), Str(<<"S">>), StrEmpty, StrTrue}
BookAvailables == {Undefined, StrTrue, StrFalse, StrEmpty}
BookSearches == {Undefined, Str(<<"h">>), Str(<<"H", "A">>), Str(<<".">>)}

\* The query object of the parameters that are present.
QueryOf(params) == [k \in {x \in DOMAIN params : params[x] # Undefined} |-> params[k]]

BookQueries ==
    {QueryOf([page |-> p, limit |-> l, category |-> c, available |-> a, search |-> s]) :
        p \in ListPages, l \in ListLimits, c \in BookCategories,
        a \in BookAvailables, s \in BookSearches}

InitBookList ==
    /\ books \in BookCollections
    /\ bookReq = EmptyObject
    /\ bookRes = NoResponse
    /\ UtilIdle /\ MembersIdle /\ BookOpsIdle /\ LoansIdle /\ ServerUp

\* The client reads the response; the next request can be sent.
ReceiveBookResponse ==
    /\ bookRes # NoResponse
    /\ bookReq' = EmptyObject
    /\ bookRes' = NoResponse
    /\ UNCHANGED <<books, utilVars, serverVars, memberVars, bookOpVars, loanVars>>

NextBookList ==
    \/ /\ bookRes = NoResponse
       /\ \E query \in BookQueries, nanAsZero \in BOOLEAN : GetBooks(query, nanAsZero)
    \/ ReceiveBookResponse

SpecBookList == InitBookList /\ [][NextBookList]_vars

Responded == bookRes.status # 0

\* C4: in every list response the number of items in data does not exceed the
\* limit the envelope reports, and that limit does not exceed 100.
C4_DataWithinLimit ==
    Responded /\ bookRes.status = 200 =>
        /\ bookRes.pagination.limit.t = "number"
        /\ Len(bookRes.data) <= bookRes.pagination.limit.n
        /\ bookRes.pagination.limit.n <= 100

\* A page or limit input that is zero, negative or not a number.
Degenerate(v) ==
    v.t = "string" /\ (ToNumber(v).t = "NaN" \/ (ToNumber(v).t = "number" /\ ToNumber(v).n <= 0))

\* C5: a list request whose page or limit is absent, zero, negative or
\* non-numeric is answered with the envelope, never an error; an absent or
\* non-numeric page is reported as 1 and limit as 10; the reported page is
\* at least 1 and the offset applied is not negative.
C5_NoErrorOnBadPaging ==
    Responded =>
        LET page == Get(bookReq, "page")
            limit == Get(bookReq, "limit")
        IN (page = Undefined \/ Degenerate(page)) /\ (limit = Undefined \/ Degenerate(limit)) =>
              /\ bookRes.status = 200
              /\ bookRes.pagination.page.t = "number" /\ bookRes.pagination.page.n >= 1
              /\ ~StartsWithInteger(page) => bookRes.pagination.page = Num(1)
              /\ ~StartsWithInteger(limit) => bookRes.pagination.limit = Num(10)
              /\ ListSkip(bookReq).t = "number" /\ ListSkip(bookReq).n >= 0

\* text contains term as a substring, ignoring letter case.
ContainsIgnoringCase(text, term) ==
    \E i \in 1..(Len(text) - Len(term) + 1) :
        ToLowerCase(SubSeq(text, i, i + Len(term) - 1)) = ToLowerCase(term)

\* C6: every book returned by GET /books has the category of the category
\* parameter, the available flag named by the available parameter, and a title
\* or author containing the search term ignoring case; with limit 5 at most 5
\* books are returned.
C6_BooksSatisfyQuery ==
    Responded /\ bookRes.status = 200 =>
        /\ \A i \in DOMAIN bookRes.data :
              LET b == bookRes.data[i] IN
              /\ Get(bookReq, "category") # Undefined => b.category = bookReq["category"]
              /\ Get(bookReq, "available") = StrTrue => b.available = Bool(TRUE)
              /\ Get(bookReq, "available") = StrFalse => b.available = Bool(FALSE)
              /\ Get(bookReq, "search") # Undefined =>
                    \/ ContainsIgnoringCase(b.title.s, bookReq["search"].s)
                    \/ ContainsIgnoringCase(b.author.s, bookReq["search"].s)
        /\ Get(bookReq, "limit") = Str(<<"5">>) => Len(bookRes.data) <= 5

-----------------------------------------------------------------------------
(* Models/Members.js: the member schema, as the store applies it *)

RoleStudent == Str(<<"s", "t", "u", "d", "e", "n", "t">>)
RolePatron == Str(<<"p", "a", "t", "r", "o", "n">>)
RoleAdmin == Str(<<"a", "d", "m", "i", "n">>)
RoleEnum == {RoleStudent, RolePatron, RoleAdmin}

\* An identifier that is not a well-formed ObjectId; stored members have
\* identifiers 1, 2, ...
MalformedId == 0

\* lowercase: true, the setter of email.
Lowercased(v) == IF v.t = "string" THEN Str(ToLowerCase(v.s)) ELSE v

\* bcrypt.hash(password, 10): a string that is not the plaintext.
BcryptHash(v) == Str(<<"$", "2", "b", "$">> \o v.s)

\* new Member(obj) with identifier id: the schema's paths, the email setter and
\* the defaults of role and isActive.
MemberDoc(id, obj) ==
    [_id |-> id,
     name |-> Get(obj, "name"),
     email |-> Lowercased(Get(obj, "email")),
     password |-> Get(obj, "password"),
     role |-> IF Get(obj, "role") = Undefined THEN RoleStudent ELSE Get(obj, "role"),
     studentId |-> Get(obj, "studentId"),
     department |-> Get(obj, "department"),
     phone |-> Get(obj, "phone"),
     address |-> Get(obj, "address"),
     isActive |-> IF Get(obj, "isActive") = Undefined THEN Bool(TRUE) ELSE Get(obj, "isActive")]

\* Validation on save: name, email and password are required, role is in the enum.
InvalidMember(doc) ==
    \/ ~Truthy(doc.name) \/ ~Truthy(doc.email) \/ ~Truthy(doc.password)
    \/ doc.role \notin RoleEnum

\* The unique index on email: another stored member holds this email.
EmailTaken(coll, email, exceptId) ==
    \E i \in DOMAIN coll : coll[i].email = email /\ coll[i]._id # exceptId

\* Member.findOne({ email }): the filter is cast with the schema's setter.
FindOneByEmail(coll, email) ==
    \E i \in DOMAIN coll : coll[i].email = Lowercased(email)

HasId(coll, id) == \E i \in DOMAIN coll : coll[i]._id = id
ById(coll, id) == coll[CHOOSE i \in DOMAIN coll : coll[i]._id = id]

\* new Member(obj).save(): a validation or duplicate-key error, or the insert.
\* Faulty variant: no unique index on email.
SaveMemberNoUniqueIndex(coll, id, obj) ==
    LET doc == MemberDoc(id, obj)
    IN IF InvalidMember(doc) THEN [ok |-> FALSE, coll |-> coll]
       ELSE [ok |-> TRUE, coll |-> Append(coll, doc)]

SaveMember(coll, id, obj) ==
    LET doc == MemberDoc(id, obj)
    IN IF InvalidMember(doc) \/ EmailTaken(coll, doc.email, MalformedId)
       THEN [ok |-> FALSE, coll |-> coll]
       ELSE [ok |-> TRUE, coll |-> Append(coll, doc)]

\* The document after an update: undefined values are dropped, every other
\* value of a schema path is set, the email through its setter.
\* Faulty variant: the update does not run the email setter.
UpdatedDocNoSetter(doc, update) ==
    [f \in DOMAIN doc |->
        IF f # "_id" /\ Get(update, f) # Undefined THEN update[f] ELSE doc[f]]

UpdatedDoc(doc, update) ==
    [f \in DOMAIN doc |->
        IF f # "_id" /\ Get(update, f) # Undefined
        THEN IF f = "email" THEN Lowercased(update[f]) ELSE update[f]
        ELSE doc[f]]

\* Member.findByIdAndUpdate(id, update, { new: true }): a cast error for a
\* malformed identifier, null when no member has it, a duplicate-key error from
\* the unique index, or the updated document.  Schema validators do not run.
FindByIdAndUpdate(coll, id, update) ==
    IF id = MalformedId THEN [outcome |-> "CastError", coll |-> coll, doc |-> <<>>]
    ELSE IF ~HasId(coll, id) THEN [outcome |-> "null", coll |-> coll, doc |-> <<>>]
    ELSE LET doc == UpdatedDoc(ById(coll, id), update)
         IN IF EmailTaken(coll, doc.email, id)
            THEN [outcome |-> "DuplicateKey", coll |-> coll, doc |-> <<>>]
            ELSE [outcome |-> "updated",
                  coll |-> [i \in DOMAIN coll |-> IF coll[i]._id = id THEN doc ELSE coll[i]],
                  doc |-> <<doc>>]

\* Faulty variant: deleting an absent document is reported as a deletion.
FindByIdAndDeleteNoNull(coll, id) ==
    IF id = MalformedId THEN [outcome |-> "CastError", coll |-> coll]
    ELSE LET Keep(m) == m._id # id
         IN [outcome |-> "deleted", coll |-> SelectSeq(coll, Keep)]

\* Model.findByIdAndDelete(id).
FindByIdAndDelete(coll, id) ==
    IF id = MalformedId THEN [outcome |-> "CastError", coll |-> coll]
    ELSE IF ~HasId(coll, id) THEN [outcome |-> "null", coll |-> coll]
    ELSE LET Keep(m) == m._id # id
         IN [outcome |-> "deleted", coll |-> SelectSeq(coll, Keep)]

\* .select("-password -__v") on a returned document.
WithoutPassword(docs) == [i \in DOMAIN docs |-> [docs[i] EXCEPT !.password = Undefined]]

\* The object of the listed fields of body, as { a, b } = req.body; ({ a, b }) builds it.
Pick(body, fields) == [f \in fields |-> Get(body, f)]

-----------------------------------------------------------------------------
(* routes/members.js: the handlers *)

MaxIds == 3

RegisterFields(kind) ==
    IF kind = "student"
    THEN {"name", "email", "password", "studentId", "department", "phone", "address"}
    ELSE {"name", "email", "password", "phone", "address"}

RequiredFields(kind) ==
    IF kind = "student" THEN {"name", "email", "password", "studentId"}
    ELSE {"name", "email", "password"}

\* Faulty variant: every registration stores the schema's default role.
RegisterRoleDefault(kind) == RoleStudent

RegisterRole(kind) == IF kind = "student" THEN RoleStudent ELSE RolePatron

\* POST /members/register/student and /register/patron, up to the answer of
\* findOne: 400 when a required field is missing or the email is found,
\* otherwise the handler goes on to hash and save.
RegisterLookup(p, kind, body) ==
    /\ reg[p].pc = "idle"
    /\ LET local == Pick(body, RegisterFields(kind))
           missing == \E f \in RequiredFields(kind) : ~Truthy(local[f])
           existing == ~missing /\ FindOneByEmail(members, local["email"])
       IN reg' = [reg EXCEPT ![p] =
                    IF missing
                    THEN [pc |-> "done", kind |-> kind, local |-> local, status |-> 400,
                          error |-> "Missing required fields"]
                    ELSE IF existing
                    THEN [pc |-> "done", kind |-> kind, local |-> local, status |-> 400,
                          error |-> "Email already registered"]
                    ELSE [pc |-> "saving", kind |-> kind, local |-> local, status |-> 0,
                          error |-> ""]]
    /\ UNCHANGED <<members, nextId, memberReq, memberRes, utilVars, serverVars, bookVars, bookOpVars, loanVars>>

\* The rest of the registration: the password is hashed, the member is built
\* with the role of the route and saved; 201, or 400 when save throws.
RegisterSave(p) ==
    /\ reg[p].pc = "saving"
    /\ nextId <= MaxIds
    /\ LET local == reg[p].local
           obj == [f \in DOMAIN local \cup {"role"} |->
                     IF f = "role" THEN RegisterRole(reg[p].kind)
                     ELSE IF f = "password" THEN BcryptHash(local[f])
                     ELSE local[f]]
           saved == SaveMember(members, nextId, obj)
       IN /\ members' = saved.coll
          /\ nextId' = IF saved.ok THEN nextId + 1 ELSE nextId
          /\ reg' = [reg EXCEPT ![p].pc = "done",
                                 ![p].status = IF saved.ok THEN 201 ELSE 400,
                                 ![p].error = IF saved.ok THEN "" ELSE "err.message"]
    /\ UNCHANGED <<memberReq, memberRes, utilVars, serverVars, bookVars, bookOpVars, loanVars>>

\* The client has read the registration's response; the connection is free again.
RegisterReceive(p) ==
    /\ reg[p].pc = "done"
    /\ reg' = [reg EXCEPT ![p] = IdleSlot]
    /\ UNCHANGED <<members, nextId, memberReq, memberRes, utilVars, serverVars, bookVars, bookOpVars, loanVars>>

\* POST /members: new Member(req.body).save(); 201, or 400 when save throws.
CreateMember(body) ==
    /\ nextId <= MaxIds
    /\ LET saved == SaveMember(members, nextId, body)
       IN /\ members' = saved.coll
          /\ nextId' = IF saved.ok THEN nextId + 1 ELSE nextId
          /\ memberRes' = [NoMemberResponse EXCEPT !.status = IF saved.ok THEN 201 ELSE 400]
    /\ memberReq' = [op |-> "POST /members", id |-> MalformedId]
    /\ UNCHANGED <<reg, utilVars, serverVars, bookVars, bookOpVars, loanVars>>

\* Faulty variant: the role of the target is not checked.
UpdateResponseNoRoleCheck(result, requiredRole) ==
    IF result.outcome \in {"CastError", "DuplicateKey"} THEN [NoMemberResponse EXCEPT !.status = 400]
    ELSE IF result.outcome = "null" THEN [NoMemberResponse EXCEPT !.status = 404]
    ELSE [NoMemberResponse EXCEPT !.status = 200, !.member = WithoutPassword(result.doc)]

\* The shape shared by the three PUT handlers: findByIdAndUpdate runs first;
\* a thrown error is answered 400, null 404; then the role check of the
\* route, if any, answers 400; otherwise 200 with the updated member.
UpdateResponse(result, requiredRole) ==
    IF result.outcome \in {"CastError", "DuplicateKey"} THEN [NoMemberResponse EXCEPT !.status = 400]
    ELSE IF result.outcome = "null" THEN [NoMemberResponse EXCEPT !.status = 404]
    ELSE IF requiredRole # Undefined /\ result.doc[1].role # requiredRole
         THEN [NoMemberResponse EXCEPT !.status = 400]
         ELSE [NoMemberResponse EXCEPT !.status = 200, !.member = WithoutPassword(result.doc)]

\* PUT /members/:id: the body without password is the update.
UpdateMember(id, body) ==
    /\ LET updateData == [f \in (DOMAIN body) \ {"password"} |-> body[f]]
           result == FindByIdAndUpdate(members, id, updateData)
       IN /\ members' = result.coll
          /\ memberRes' = UpdateResponse(result, Undefined)
    /\ memberReq' = [op |-> "PUT /members/:id", id |-> id]
    /\ UNCHANGED <<nextId, reg, utilVars, serverVars, bookVars, bookOpVars, loanVars>>

\* PUT /members/:id/student.
UpdateStudent(id, body) ==
    /\ LET updateData == Pick(body, {"studentId", "department", "phone", "address", "name", "email"})
           result == FindByIdAndUpdate(members, id, updateData)
       IN /\ members' = result.coll
          /\ memberRes' = UpdateResponse(result, RoleStudent)
    /\ memberReq' = [op |-> "PUT /members/:id/student", id |-> id]
    /\ UNCHANGED <<nextId, reg, utilVars, serverVars, bookVars, bookOpVars, loanVars>>

\* PUT /members/:id/patron.
UpdatePatron(id, body) ==
    /\ LET updateData == Pick(body, {"phone", "address", "name", "email"})
           result == FindByIdAndUpdate(members, id, updateData)
       IN /\ members' = result.coll
          /\ memberRes' = UpdateResponse(result, RolePatron)
    /\ memberReq' = [op |-> "PUT /members/:id/patron", id |-> id]
    /\ UNCHANGED <<nextId, reg, utilVars, serverVars, bookVars, bookOpVars, loanVars>>

\* DELETE /members/:id: a thrown error is answered 500, null 404.
DeleteMember(id) ==
    /\ LET result == FindByIdAndDelete(members, id)
       IN /\ members' = result.coll
          /\ memberRes' = [NoMemberResponse EXCEPT
                               !.status = CASE result.outcome = "CastError" -> 500
                                            [] result.outcome = "null" -> 404
                                            [] OTHER -> 200]
    /\ memberReq' = [op |-> "DELETE /members/:id", id |-> id]
    /\ UNCHANGED <<nextId, reg, utilVars, serverVars, bookVars, bookOpVars, loanVars>>

\* The client has read the response; the next request can be sent.
\* bcrypt.compare(s, hash): rejects when an argument is not a string, and
\* otherwise tells whether hash is the hash of s.
BcryptCompare(v, hash) ==
    IF v.t # "string" \/ hash.t # "string" THEN "throws"
    ELSE IF hash = BcryptHash(v) THEN "true" ELSE "false"

\* Faulty variant: the stored password stays in the returned user.
LoginResponseWithPassword(coll, body) ==
    LET email == Get(body, "email")
        password == Get(body, "password")
    IN IF ~Truthy(email) \/ ~Truthy(password)
       THEN [NoMemberResponse EXCEPT !.status = 400,
                                     !.message = "Email and password are required"]
       ELSE IF ~FindOneByEmail(coll, email)
       THEN [NoMemberResponse EXCEPT !.status = 401, !.message = "Invalid email or password"]
       ELSE LET user == coll[CHOOSE i \in DOMAIN coll : coll[i].email = Lowercased(email)]
                valid == BcryptCompare(password, user.password)
            IN CASE valid = "throws" ->
                      [NoMemberResponse EXCEPT !.status = 500, !.message = "Illegal arguments"]
                 [] valid = "false" ->
                      [NoMemberResponse EXCEPT !.status = 401,
                                               !.message = "Invalid email or password"]
                 [] OTHER ->
                      [NoMemberResponse EXCEPT !.status = 200, !.message = "login successful",
                                               !.member = <<user>>]

\* The response of POST /members/login to body over the collection coll.
LoginResponse(coll, body) ==
    LET email == Get(body, "email")
        password == Get(body, "password")
    IN IF ~Truthy(email) \/ ~Truthy(password)
       THEN [NoMemberResponse EXCEPT !.status = 400,
                                     !.message = "Email and password are required"]
       ELSE IF ~FindOneByEmail(coll, email)
       THEN [NoMemberResponse EXCEPT !.status = 401, !.message = "Invalid email or password"]
       ELSE LET user == coll[CHOOSE i \in DOMAIN coll : coll[i].email = Lowercased(email)]
                valid == BcryptCompare(password, user.password)
            IN CASE valid = "throws" ->
                      [NoMemberResponse EXCEPT !.status = 500, !.message = "Illegal arguments"]
                 [] valid = "false" ->
                      [NoMemberResponse EXCEPT !.status = 401,
                                               !.message = "Invalid email or password"]
                 [] OTHER ->
                      [NoMemberResponse EXCEPT !.status = 200, !.message = "login successful",
                                               !.member = WithoutPassword(<<user>>)]

\* POST /members/login.
Login(body) ==
    /\ memberRes' = LoginResponse(members, body)
    /\ memberReq' = [op |-> "POST /members/login", id |-> MalformedId]
    /\ UNCHANGED <<members, nextId, reg, utilVars, serverVars, bookVars, bookOpVars, loanVars>>

\* The filter of GET /members: role when truthy, isActive compared with 'true'
\* when present, and the search pattern over name, email and studentId.
MemberFilter(query) ==
    LET role == Get(query, "role")
        isActive == Get(query, "isActive")
        search == Get(query, "search")
        f1 == IF Truthy(role) THEN Put(EmptyObject, "role", role) ELSE EmptyObject
        f2 == IF isActive # Undefined THEN Put(f1, "isActive", Bool(isActive = StrTrue)) ELSE f1
    IN IF Truthy(search) THEN Put(f2, "$or", search) ELSE f2

MemberMatches(member, filter) ==
    /\ "role" \in DOMAIN filter => member.role = filter["role"]
    /\ "isActive" \in DOMAIN filter => member.isActive = filter["isActive"]
    /\ "$or" \in DOMAIN filter =>
          \/ FieldMatchesRegex(member.name, filter["$or"])
          \/ FieldMatchesRegex(member.email, filter["$or"])
          \/ FieldMatchesRegex(member.studentId, filter["$or"])

\* Member.find(filter) sorted by registrationDate descending.
FindMembers(filter) ==
    LET Test(m) == MemberMatches(m, filter) IN Reverse(SelectSeq(members, Test))

\* GET /members.
GetMembers(query, nanAsZero) ==
    /\ LET listed == ListResponse(WithoutPassword(FindMembers(MemberFilter(query))),
                                  query, nanAsZero)
       IN memberRes' = [NoMemberResponse EXCEPT !.status = listed.status,
                                                !.data = listed.data,
                                                !.pagination = listed.pagination]
    /\ memberReq' = [op |-> "GET /members", id |-> MalformedId]
    /\ UNCHANGED <<members, nextId, reg, utilVars, serverVars, bookVars, bookOpVars, loanVars>>

\* GET /members/:id: findById, with a cast error answered 500 by the catch.
GetMember(id) ==
    /\ memberRes' =
          IF id = MalformedId THEN [NoMemberResponse EXCEPT !.status = 500]
          ELSE IF ~HasId(members, id) THEN [NoMemberResponse EXCEPT !.status = 404]
          ELSE [NoMemberResponse EXCEPT !.status = 200,
                                        !.member = WithoutPassword(<<ById(members, id)>>)]
    /\ memberReq' = [op |-> "GET /members/:id", id |-> id]
    /\ UNCHANGED <<members, nextId, reg, utilVars, serverVars, bookVars, bookOpVars, loanVars>>

ReceiveMemberResponse ==
    /\ memberRes # NoMemberResponse
    /\ memberReq' = NoMemberRequest
    /\ memberRes' = NoMemberResponse
    /\ UNCHANGED <<members, nextId, reg, utilVars, serverVars, bookVars, bookOpVars, loanVars>>

-----------------------------------------------------------------------------
(* The requests *)

EmailA == Str(<<"a", "@", "x">>)
EmailAUpper == Str(<<"A", "@", "x">>)
EmailB == Str(<<"b", "@", "x">>)
Emails == {EmailA, EmailAUpper, EmailB}
NameN == Str(<<"n">>)
PasswordPw == Str(<<"p", "w">>)
StudentIdS1 == Str(<<"s", "1">>)

\* Registration bodies: complete ones, and ones that lack one required field.
CompleteBody(e) ==
    QueryOf([name |-> NameN, email |-> e, password |-> PasswordPw, studentId |-> StudentIdS1])

\* A complete body that also names a role; only this body carries NameR.
NameR == Str(<<"r">>)
RoleNamingBody == [CompleteBody(EmailB) EXCEPT !["name"] = NameR] @@ [role |-> RoleAdmin]

RegisterBodies ==
    {CompleteBody(e) : e \in Emails}
    \cup {RoleNamingBody}
    \cup {[f \in (DOMAIN CompleteBody(EmailA)) \ {g} |-> CompleteBody(EmailA)[f]] :
            g \in {"name", "email", "password", "studentId"}}

\* Bodies of POST /members: with a role or none, and one without password.
CreateBodies ==
    {QueryOf([name |-> NameN, email |-> e, password |-> PasswordPw, role |-> r]) :
        e \in Emails, r \in {Undefined, RolePatron, RoleAdmin}}
    \cup {QueryOf([name |-> NameN, email |-> EmailA])}

\* Bodies of PUT /members/:id: an email, a role, both, a password, or a role
\* outside the enum.
RoleRoot == Str(<<"r", "o", "o", "t">>)
UpdateBodies ==
    {QueryOf([email |-> e, role |-> r]) : e \in Emails \cup {Undefined}, r \in {Undefined, RolePatron}}
    \cup {QueryOf([password |-> PasswordPw]), QueryOf([role |-> RoleRoot])}

\* Bodies of PUT /members/:id/student and /patron.
ProfileBodies ==
    {QueryOf([email |-> e, studentId |-> sid]) :
        e \in Emails \cup {Undefined}, sid \in {Undefined, StudentIdS1}}

RequestIds == {MalformedId} \cup 1..MaxIds

\* Bodies of POST /members/login: the secret of the creating requests, another
\* string, a number, or no password.
PasswordNo == Str(<<"n", "o">>)
LoginBodies ==
    {QueryOf([email |-> e, password |-> p]) :
        e \in Emails, p \in {Undefined, PasswordPw, PasswordNo, Num(1)}}

\* Queries of GET /members.
MemberQueries ==
    {QueryOf([role |-> r, search |-> q, limit |-> l]) :
        r \in {Undefined, RolePatron}, q \in {Undefined, Str(<<"A">>)},
        l \in {Undefined, Str(<<"1">>)}}

InitMembers == MembersIdle /\ UtilIdle /\ BooksIdle /\ BookOpsIdle /\ LoansIdle /\ ServerUp

Register(p) ==
    \/ \E kind \in {"student", "patron"}, body \in RegisterBodies : RegisterLookup(p, kind, body)
    \/ RegisterSave(p)

\* No response awaits its client: a client reads the response to its request
\* before the next request is handled.
Delivered == memberRes = NoMemberResponse /\ reg[1].pc # "done"

SingleStep ==
    /\ Delivered
    /\ \/ \E body \in CreateBodies : CreateMember(body)
       \/ \E id \in RequestIds, body \in UpdateBodies : UpdateMember(id, body)
       \/ \E id \in RequestIds, body \in ProfileBodies : UpdateStudent(id, body)
       \/ \E id \in RequestIds, body \in ProfileBodies : UpdatePatron(id, body)
       \/ \E id \in RequestIds : DeleteMember(id)
       \/ \E body \in LoginBodies : Login(body)
       \/ \E query \in MemberQueries : GetMembers(query, TRUE)
       \/ \E id \in RequestIds : GetMember(id)

\* Any sequence of member requests: registrations on the first connection,
\* in two steps each, interleaved with the single-step requests of another.
Next ==
    \/ Delivered /\ Register(1)
    \/ RegisterReceive(1)
    \/ SingleStep
    \/ ReceiveMemberResponse

Spec == InitMembers /\ [][Next]_vars

\* Two registration requests, one per connection, in any interleaving.
NextRegister == \E p \in RegProcs : Register(p)

SpecRegister == InitMembers /\ [][NextRegister]_vars

-----------------------------------------------------------------------------
(* Models/Loan.js: the loan schema, and populate *)

\* new Borrowed(obj) with identifier id: the schema's paths and the defaults
\* of returned and isOverdue.
LoanDoc(id, obj) ==
    [_id |-> id,
     userId |-> Get(obj, "userId"),
     bookId |-> Get(obj, "bookId"),
     dueDate |-> Get(obj, "dueDate"),
     returnDate |-> Get(obj, "returnDate"),
     returned |-> IF Get(obj, "returned") = Undefined THEN Bool(FALSE) ELSE Get(obj, "returned"),
     isOverdue |-> IF Get(obj, "isOverdue") = Undefined THEN Bool(FALSE)
                   ELSE Get(obj, "isOverdue")]

\* Validation on save: userId, bookId and dueDate are required.
InvalidLoan(doc) ==
    doc.userId = Undefined \/ doc.bookId = Undefined \/ doc.dueDate = Undefined

\* The document after an update: every defined value of a schema path is set.
SetFields(doc, update) ==
    [f \in DOMAIN doc |-> IF f # "_id" /\ Get(update, f) # Undefined THEN update[f] ELSE doc[f]]

\* A populated reference: the selected fields of document k of the referenced
\* collection, or null when the collection holds no such document.
Obj(k) == [t |-> "object", s |-> <<>>, n |-> k]
Populated(ref, coll) == IF ref.t = "number" /\ HasId(coll, ref.n) THEN Obj(ref.n) ELSE Null

\* userId refers to the model "User".  The members model is registered as
\* "Member" and no model is registered as "User", so populating userId on a
\* non-empty result fails with MissingSchemaError.  bookId refers to "Book",
\* which is registered.
UserModelRegistered == FALSE

\* populate('userId', ...) and populate('bookId', ...) over the found documents.
PopulateUser(docs) ==
    IF docs = <<>> THEN [ok |-> TRUE, docs |-> docs]
    ELSE IF ~UserModelRegistered THEN [ok |-> FALSE, docs |-> <<>>]
    ELSE [ok |-> TRUE,
          docs |-> [i \in DOMAIN docs |->
                      [docs[i] EXCEPT !.userId = Populated(docs[i].userId, members)]]]

PopulateBook(docs) ==
    [i \in DOMAIN docs |-> [docs[i] EXCEPT !.bookId = Populated(docs[i].bookId, books)]]

-----------------------------------------------------------------------------
(* routes/loans.js: the handlers *)

MaxLoans == 2

LoanResponse(status) == [NoLoanResponse EXCEPT !.status = status]

\* POST /loans: save, then populate userId and bookId on the saved document;
\* any error is answered 400.  Whether populate on a document runs when awaited
\* depends on the library version: populates.
CreateLoan(body, populates) ==
    /\ nextLoanId <= MaxLoans
    /\ LET doc == LoanDoc(nextLoanId, body)
           populated == IF populates THEN PopulateUser(<<doc>>)
                        ELSE [ok |-> TRUE, docs |-> <<doc>>]
       IN IF InvalidLoan(doc)
          THEN /\ loans' = loans /\ nextLoanId' = nextLoanId
               /\ loanRes' = LoanResponse(400)
          ELSE /\ loans' = Append(loans, doc)
               /\ nextLoanId' = nextLoanId + 1
               /\ loanRes' = IF ~populated.ok THEN LoanResponse(400)
                             ELSE [LoanResponse(201) EXCEPT
                                      !.loan = IF populates THEN PopulateBook(populated.docs)
                                               ELSE populated.docs]
    /\ loanReq' = [op |-> "POST /loans", id |-> MalformedId]
    /\ UNCHANGED <<utilVars, serverVars, bookVars, bookOpVars, memberVars>>

\* PUT /loans/:id: findByIdAndUpdate with the request body, then populate.
UpdateLoan(id, body) ==
    /\ IF id = MalformedId
       THEN loans' = loans /\ loanRes' = LoanResponse(400)
       ELSE IF ~HasId(loans, id)
       THEN loans' = loans /\ loanRes' = LoanResponse(404)
       ELSE LET doc == SetFields(ById(loans, id), body)
                populated == PopulateUser(<<doc>>)
            IN /\ loans' = [i \in DOMAIN loans |-> IF loans[i]._id = id THEN doc ELSE loans[i]]
               /\ loanRes' = IF ~populated.ok THEN LoanResponse(400)
                             ELSE [LoanResponse(200) EXCEPT
                                      !.loan = PopulateBook(populated.docs)]
    /\ loanReq' = [op |-> "PUT /loans/:id", id |-> id]
    /\ UNCHANGED <<nextLoanId, utilVars, serverVars, bookVars, bookOpVars, memberVars>>

\* DELETE /loans/:id.
DeleteLoan(id) ==
    /\ LET result == FindByIdAndDelete(loans, id)
       IN /\ loans' = result.coll
          /\ loanRes' = LoanResponse(CASE result.outcome = "CastError" -> 500
                                       [] result.outcome = "null" -> 404
                                       [] OTHER -> 200)
    /\ loanReq' = [op |-> "DELETE /loans/:id", id |-> id]
    /\ UNCHANGED <<nextLoanId, utilVars, serverVars, bookVars, bookOpVars, memberVars>>

\* GET /loans/:id: findById, then populate.
GetLoan(id) ==
    /\ loanRes' =
          IF id = MalformedId THEN LoanResponse(500)
          ELSE IF ~HasId(loans, id) THEN LoanResponse(404)
          ELSE LET populated == PopulateUser(<<ById(loans, id)>>)
               IN IF ~populated.ok THEN LoanResponse(500)
                  ELSE [LoanResponse(200) EXCEPT !.loan = PopulateBook(populated.docs)]
    /\ loanReq' = [op |-> "GET /loans/:id", id |-> id]
    /\ UNCHANGED <<loans, nextLoanId, utilVars, serverVars, bookVars, bookOpVars, memberVars>>

\* The page a loan list route answers with: find, populate, count.
LoanListResponse(sorted, query, withUser) ==
    LET listed == ListResponse(sorted, query, TRUE)
        populated == IF withUser THEN PopulateUser(listed.data)
                     ELSE [ok |-> TRUE, docs |-> listed.data]
    IN IF listed.status # 200 \/ ~populated.ok THEN LoanResponse(500)
       ELSE [LoanResponse(200) EXCEPT !.data = PopulateBook(populated.docs),
                                      !.total = Len(sorted)]

\* GET /loans/reports/overdue: the loans with isOverdue true and returned false.
OverdueLoans ==
    LET Test(l) == l.isOverdue = Bool(TRUE) /\ l.returned = Bool(FALSE)
    IN SelectSeq(loans, Test)

GetOverdue(query) ==
    /\ loanRes' = LoanListResponse(OverdueLoans, query, TRUE)
    /\ loanReq' = [op |-> "GET /loans/reports/overdue", id |-> MalformedId]
    /\ UNCHANGED <<loans, nextLoanId, utilVars, serverVars, bookVars, bookOpVars, memberVars>>

\* GET /loans/user/:userId: the user's loans, newest first, bookId populated.
GetUserLoans(userId, query) ==
    /\ loanRes' =
          IF userId = MalformedId THEN LoanResponse(500)
          ELSE LET returned == Get(query, "returned")
                   Test(l) == /\ l.userId = Num(userId)
                              /\ returned # Undefined => l.returned = Bool(returned = StrTrue)
               IN LoanListResponse(Reverse(SelectSeq(loans, Test)), query, FALSE)
    /\ loanReq' = [op |-> "GET /loans/user/:userId", id |-> userId]
    /\ UNCHANGED <<loans, nextLoanId, utilVars, serverVars, bookVars, bookOpVars, memberVars>>

\* GET /loans: the loans matching returned, userId, bookId and isOverdue,
\* newest first.
GetLoans(query) ==
    /\ LET returned == Get(query, "returned")
           isOverdue == Get(query, "isOverdue")
           userId == Get(query, "userId")
           bookId == Get(query, "bookId")
           Test(l) == /\ returned # Undefined => l.returned = Bool(returned = StrTrue)
                      /\ Truthy(userId) => l.userId = ToNumber(userId)
                      /\ Truthy(bookId) => l.bookId = ToNumber(bookId)
                      /\ isOverdue # Undefined => l.isOverdue = Bool(isOverdue = StrTrue)
       IN loanRes' = LoanListResponse(Reverse(SelectSeq(loans, Test)), query, TRUE)
    /\ loanReq' = [op |-> "GET /loans", id |-> MalformedId]
    /\ UNCHANGED <<loans, nextLoanId, utilVars, serverVars, bookVars, bookOpVars, memberVars>>

\* The $count stage: one document holding the number of its input documents,
\* and no document at all when there are none.
CountStage(docs) == IF docs = <<>> THEN <<>> ELSE <<Len(docs)>>

\* GET /loans/stats/summary: one $facet of three $match + $count pipelines;
\* the response is the facet document itself.
GetLoanStats ==
    /\ LET Active(l) == l.returned = Bool(FALSE)
           Returned(l) == l.returned = Bool(TRUE)
           Overdue(l) == l.isOverdue = Bool(TRUE) /\ l.returned = Bool(FALSE)
       IN loanRes' = [LoanResponse(200) EXCEPT
                         !.stats = [activeLoans |-> CountStage(SelectSeq(loans, Active)),
                                    returnedLoans |-> CountStage(SelectSeq(loans, Returned)),
                                    overdueLoans |-> CountStage(SelectSeq(loans, Overdue))]]
    /\ loanReq' = [op |-> "GET /loans/stats/summary", id |-> MalformedId]
    /\ UNCHANGED <<loans, nextLoanId, utilVars, serverVars, bookVars, bookOpVars, memberVars>>

ReceiveLoanResponse ==
    /\ loanRes # NoLoanResponse
    /\ loanReq' = NoDocRequest
    /\ loanRes' = NoLoanResponse
    /\ UNCHANGED <<loans, nextLoanId, utilVars, serverVars, bookVars, bookOpVars, memberVars>>

-----------------------------------------------------------------------------
(* Specification of the loans router: any sequence of loan requests, each    *)
(* response read before the next request is handled.                         *)

DueDay == Num(20)
ReturnDay == Num(21)

\* Bodies of POST /loans: with or without the required userId, and with the
\* flags set or absent.
LoanBodies ==
    {QueryOf([userId |-> u, bookId |-> Num(1), dueDate |-> DueDay,
              returned |-> r, isOverdue |-> o]) :
        u \in {Undefined, Num(1)}, r \in {Undefined, Bool(TRUE)},
        o \in {Undefined, Bool(TRUE)}}

\* Bodies of PUT /loans/:id: any of returned, returnDate and isOverdue.
LoanUpdates ==
    {QueryOf([returned |-> r, returnDate |-> d, isOverdue |-> o]) :
        r \in {Undefined, Bool(TRUE), Bool(FALSE)}, d \in {Undefined, ReturnDay},
        o \in {Undefined, Bool(TRUE), Bool(FALSE)}}

LoanIds == {MalformedId} \cup 1..MaxLoans

\* Queries of the loan list routes.
LoanQueries == {QueryOf([returned |-> r]) : r \in {Undefined, StrTrue}}

InitLoans == LoansIdle /\ MembersIdle /\ BooksIdle /\ BookOpsIdle /\ UtilIdle /\ ServerUp

NextLoans ==
    \/ loanRes = NoLoanResponse /\ \E body \in LoanBodies, populates \in BOOLEAN :
                                     CreateLoan(body, populates)
    \/ loanRes = NoLoanResponse /\ \E id \in LoanIds, body \in LoanUpdates : UpdateLoan(id, body)
    \/ loanRes = NoLoanResponse /\ \E id \in LoanIds : DeleteLoan(id)
    \/ loanRes = NoLoanResponse /\ \E id \in LoanIds : GetLoan(id)
    \/ loanRes = NoLoanResponse /\ \E query \in LoanQueries : GetLoans(query)
    \/ loanRes = NoLoanResponse /\ \E id \in LoanIds, query \in LoanQueries : GetUserLoans(id, query)
    \/ loanRes = NoLoanResponse /\ GetOverdue(EmptyObject)
    \/ loanRes = NoLoanResponse /\ GetLoanStats
    \/ ReceiveLoanResponse

SpecLoans == InitLoans /\ [][NextLoans]_vars

-----------------------------------------------------------------------------
(* routes/books.js: the handlers of /books/:id *)

BookResponse(status) == [NoBookResponse EXCEPT !.status = status]

\* The unique sparse index on isbn: another stored book holds this isbn.
IsbnTaken(coll, isbn, exceptId) ==
    isbn # Undefined /\ \E i \in DOMAIN coll : coll[i].isbn = isbn /\ coll[i]._id # exceptId

\* new Book(obj) with identifier id, created at instant createdAt: the
\* schema's paths and the defaults of available and quantity.
BookDoc(id, obj, createdAt) ==
    [_id |-> id,
     title |-> Get(obj, "title"),
     author |-> Get(obj, "author"),
     isbn |-> Get(obj, "isbn"),
     category |-> Get(obj, "category"),
     available |-> IF Get(obj, "available") = Undefined THEN Bool(TRUE)
                   ELSE Get(obj, "available"),
     quantity |-> IF Get(obj, "quantity") = Undefined THEN Num(1) ELSE Get(obj, "quantity"),
     createdAt |-> createdAt]

\* Validation on save: title and author are required, quantity is at least 0.
InvalidBook(doc) ==
    \/ ~Truthy(doc.title) \/ ~Truthy(doc.author)
    \/ doc.quantity.t = "number" /\ doc.quantity.n < 0

\* The instant of a creation: the instant of the newest stored book when both
\* fall in the same millisecond, a later one otherwise.
NextInstant(coll, sameInstant) ==
    IF coll = <<>> THEN 1
    ELSE coll[Len(coll)].createdAt + (IF sameInstant THEN 0 ELSE 1)

\* Faulty variant: no unique index on isbn.
SaveBookNoUniqueIndex(coll, id, obj, createdAt) ==
    LET doc == BookDoc(id, obj, createdAt)
    IN IF InvalidBook(doc) THEN [ok |-> FALSE, coll |-> coll, doc |-> <<>>]
       ELSE [ok |-> TRUE, coll |-> Append(coll, doc), doc |-> <<doc>>]

\* new Book(obj).save(): a validation or duplicate-key error, or the insert.
SaveBook(coll, id, obj, createdAt) ==
    LET doc == BookDoc(id, obj, createdAt)
    IN IF InvalidBook(doc) \/ IsbnTaken(coll, doc.isbn, MalformedId)
       THEN [ok |-> FALSE, coll |-> coll, doc |-> <<>>]
       ELSE [ok |-> TRUE, coll |-> Append(coll, doc), doc |-> <<doc>>]

MaxBookIds == 3

\* POST /books: save and respond 201 with the book; any error is answered 400.
CreateBook(body, sameInstant) ==
    /\ nextBookId <= MaxBookIds
    /\ LET saved == SaveBook(books, nextBookId, body, NextInstant(books, sameInstant))
       IN /\ books' = saved.coll
          /\ nextBookId' = IF saved.ok THEN nextBookId + 1 ELSE nextBookId
          /\ bookOpRes' = [BookResponse(IF saved.ok THEN 201 ELSE 400) EXCEPT !.book = saved.doc]
    /\ bookOpReq' = [op |-> "POST /books", id |-> MalformedId]
    /\ UNCHANGED <<bookReq, bookRes, utilVars, serverVars, memberVars, loanVars>>

\* GET /books/:id: findById, with a cast error answered 500 by the catch.
GetBook(id) ==
    /\ bookOpRes' =
          IF id = MalformedId THEN BookResponse(500)
          ELSE IF ~HasId(books, id) THEN BookResponse(404)
          ELSE [BookResponse(200) EXCEPT !.book = <<ById(books, id)>>]
    /\ bookOpReq' = [op |-> "GET /books/:id", id |-> id]
    /\ UNCHANGED <<bookVars, nextBookId, utilVars, serverVars, memberVars, loanVars>>

\* PUT /books/:id: findByIdAndUpdate with the request body; any error is
\* answered 400.
UpdateBook(id, body) ==
    /\ IF id = MalformedId
       THEN books' = books /\ bookOpRes' = BookResponse(400)
       ELSE IF ~HasId(books, id)
       THEN books' = books /\ bookOpRes' = BookResponse(404)
       ELSE LET doc == SetFields(ById(books, id), body)
            IN IF IsbnTaken(books, doc.isbn, id)
               THEN books' = books /\ bookOpRes' = BookResponse(400)
               ELSE /\ books' = [i \in DOMAIN books |->
                                    IF books[i]._id = id THEN doc ELSE books[i]]
                    /\ bookOpRes' = [BookResponse(200) EXCEPT !.book = <<doc>>]
    /\ bookOpReq' = [op |-> "PUT /books/:id", id |-> id]
    /\ UNCHANGED <<bookReq, bookRes, nextBookId, utilVars, serverVars, memberVars, loanVars>>

\* DELETE /books/:id.
DeleteBook(id) ==
    /\ LET result == FindByIdAndDelete(books, id)
       IN /\ books' = result.coll
          /\ bookOpRes' = BookResponse(CASE result.outcome = "CastError" -> 500
                                         [] result.outcome = "null" -> 404
                                         [] OTHER -> 200)
    /\ bookOpReq' = [op |-> "DELETE /books/:id", id |-> id]
    /\ UNCHANGED <<bookReq, bookRes, nextBookId, utilVars, serverVars, memberVars, loanVars>>

ReceiveBookOpResponse ==
    /\ bookOpRes # NoBookResponse
    /\ bookOpReq' = NoDocRequest
    /\ bookOpRes' = NoBookResponse
    /\ UNCHANGED <<bookVars, nextBookId, utilVars, serverVars, memberVars, loanVars>>

-----------------------------------------------------------------------------
(* Specification of the books router's writes: any sequence of POST /books, *)
(* PUT /books/:id and DELETE /books/:id, each response read before the next *)
(* request is handled.                                                       *)

IsbnI == Str(<<"i">>)
IsbnJ == Str(<<"j">>)

\* Bodies of POST /books: with or without an isbn and a quantity, and one
\* without the required title.
BookBodies ==
    {QueryOf([title |-> Str(<<"t">>), author |-> Str(<<"a">>), isbn |-> i, quantity |-> q]) :
        i \in {Undefined, IsbnI}, q \in {Undefined, Num(-1)}}
    \cup {QueryOf([author |-> Str(<<"a">>)])}

\* Bodies of PUT /books/:id: an isbn, a quantity, or both.
BookChanges ==
    {QueryOf([isbn |-> i, quantity |-> q]) :
        i \in {Undefined, IsbnI, IsbnJ}, q \in {Undefined, Num(-1)}}

BookIds == {MalformedId} \cup 1..MaxBookIds

InitBooks == BooksIdle /\ BookOpsIdle /\ MembersIdle /\ LoansIdle /\ UtilIdle /\ ServerUp

NextBooks ==
    \/ /\ bookOpRes = NoBookResponse
       /\ \E body \in BookBodies : CreateBook(body, FALSE)
    \/ /\ bookOpRes = NoBookResponse
       /\ \E id \in BookIds, body \in BookChanges : UpdateBook(id, body)
    \/ /\ bookOpRes = NoBookResponse
       /\ \E id \in BookIds : DeleteBook(id)
    \/ ReceiveBookOpResponse

SpecBooks == InitBooks /\ [][NextBooks]_vars

-----------------------------------------------------------------------------
(* A failing store: the handler's first store call rejects with an error    *)
(* that is neither a validation, a cast nor a duplicate-key error.  The     *)
(* collections are unchanged and the handler's catch answers.               *)

MemberOps ==
    {"POST /members/login", "POST /members/register/student", "POST /members/register/patron",
     "GET /members", "GET /members/:id", "POST /members", "PUT /members/:id",
     "PUT /members/:id/student", "PUT /members/:id/patron", "DELETE /members/:id",
     "GET /members/stats/overview"}
BookOps ==
    {"GET /books", "GET /books/:id", "POST /books", "PUT /books/:id", "DELETE /books/:id",
     "GET /books/stats/by-category"}
LoanOps ==
    {"GET /loans", "GET /loans/:id", "POST /loans", "PUT /loans/:id", "DELETE /loans/:id",
     "GET /loans/user/:userId", "GET /loans/reports/overdue", "GET /loans/stats/summary"}

\* The status each handler's catch block answers with.
CatchStatus(op) ==
    IF op \in {"POST /members/register/student", "POST /members/register/patron",
               "POST /members", "PUT /members/:id", "PUT /members/:id/student",
               "PUT /members/:id/patron", "POST /books", "PUT /books/:id",
               "POST /loans", "PUT /loans/:id"}
    THEN 400
    ELSE 500

MemberStoreFailure(op) ==
    /\ memberReq' = [op |-> op, id |-> 1]
    /\ memberRes' = [NoMemberResponse EXCEPT !.status = CatchStatus(op), !.message = "err.message"]
    /\ UNCHANGED <<members, nextId, reg, utilVars, serverVars, bookVars, bookOpVars, loanVars>>

BookStoreFailure(op) ==
    /\ bookOpReq' = [op |-> op, id |-> 1]
    /\ bookOpRes' = BookResponse(CatchStatus(op))
    /\ UNCHANGED <<bookVars, nextBookId, utilVars, serverVars, memberVars, loanVars>>

LoanStoreFailure(op) ==
    /\ loanReq' = [op |-> op, id |-> 1]
    /\ loanRes' = LoanResponse(CatchStatus(op))
    /\ UNCHANGED <<loans, nextLoanId, utilVars, serverVars, bookVars, bookOpVars, memberVars>>

-----------------------------------------------------------------------------
(* Specifications of the operations on one document: collections of at     *)
(* most one document each, then any sequence of GET, PUT and DELETE by      *)
(* identifier on the three routers; with a working store (SpecById), and    *)
(* with a store that may fail (SpecResources).                              *)

StoredMember == MemberDoc(1, [CompleteBody(EmailA) EXCEPT !["password"] = BcryptHash(PasswordPw)])
StoredLoan == LoanDoc(1, QueryOf([userId |-> Num(1), bookId |-> Num(1), dueDate |-> DueDay]))

BookUpdates ==
    {QueryOf([title |-> t, available |-> a]) :
        t \in {Undefined, Str(<<"t">>)}, a \in {Undefined, Bool(FALSE)}}

\* The identifiers of the requests: malformed, the stored document's, and a
\* well-formed one no document has.
ResourceIds == {MalformedId, 1, 2}

InitResources ==
    /\ members \in {<<>>, <<StoredMember>>} /\ nextId = 2
    /\ reg = [p \in RegProcs |-> IdleSlot]
    /\ memberReq = NoMemberRequest /\ memberRes = NoMemberResponse
    /\ books \in {<<>>} \cup {WithIds(<<shape>>) : shape \in BookShapes}
    /\ bookReq = EmptyObject /\ bookRes = NoResponse
    /\ BookOpsIdle /\ ServerUp
    /\ loans \in {<<>>, <<StoredLoan>>} /\ nextLoanId = 2
    /\ loanReq = NoDocRequest /\ loanRes = NoLoanResponse
    /\ UtilIdle

\* No response awaits its client.
AllDelivered ==
    memberRes = NoMemberResponse /\ bookOpRes = NoBookResponse /\ loanRes = NoLoanResponse

MemberById ==
    /\ AllDelivered
    /\ \/ \E id \in ResourceIds : GetMember(id)
       \/ \E id \in ResourceIds, body \in UpdateBodies : UpdateMember(id, body)
       \/ \E id \in ResourceIds : DeleteMember(id)

BookById ==
    /\ AllDelivered
    /\ \/ \E id \in ResourceIds : GetBook(id)
       \/ \E id \in ResourceIds, body \in BookUpdates : UpdateBook(id, body)
       \/ \E id \in ResourceIds : DeleteBook(id)

LoanById ==
    /\ AllDelivered
    /\ \/ \E id \in ResourceIds : GetLoan(id)
       \/ \E id \in ResourceIds, body \in LoanUpdates : UpdateLoan(id, body)
       \/ \E id \in ResourceIds : DeleteLoan(id)
       \/ \E id \in ResourceIds : GetUserLoans(id, EmptyObject)

StoreFailure ==
    /\ AllDelivered
    /\ \/ \E op \in MemberOps : MemberStoreFailure(op)
       \/ \E op \in BookOps : BookStoreFailure(op)
       \/ \E op \in LoanOps : LoanStoreFailure(op)

NextById ==
    \/ MemberById
    \/ BookById
    \/ LoanById
    \/ ReceiveMemberResponse
    \/ ReceiveBookOpResponse
    \/ ReceiveLoanResponse

SpecById == InitResources /\ [][NextById]_vars

NextResources ==
    \/ MemberById
    \/ BookById
    \/ LoanById
    \/ StoreFailure
    \/ ReceiveMemberResponse
    \/ ReceiveBookOpResponse
    \/ ReceiveLoanResponse

SpecResources == InitResources /\ [][NextResources]_vars

-----------------------------------------------------------------------------
(* Properties of the members router *)

\* The registration request of connection p carried every required field.
Complete(p) == \A f \in RequiredFields(reg[p].kind) : Truthy(reg[p].local[f])

\* The stored members whose email is e.
WithEmail(e) == {i \in DOMAIN members : members[i].email = e}

\* C7: when two registration requests carry the same email up to letter case,
\* then in every interleaving of their findOne and save steps one is answered
\* 201 and the other 400, and exactly one member with that email is stored.
C7_OneRegistrationWins ==
    (/\ reg[1].pc = "done" /\ reg[2].pc = "done"
     /\ Complete(1) /\ Complete(2)
     /\ Lowercased(reg[1].local["email"]) = Lowercased(reg[2].local["email"]))
    => /\ {reg[1].status, reg[2].status} = {201, 400}
       /\ Cardinality(WithEmail(Lowercased(reg[1].local["email"]))) = 1

\* Both requests passed findOne before either saved: the loser's 400 comes from
\* save, with emails that differ in letter case.
C7_Witness ==
    /\ reg[1].pc = "done" /\ reg[2].pc = "done"
    /\ reg[1].local["email"] = EmailAUpper /\ reg[2].local["email"] = EmailA
    /\ reg[1].kind = "student" /\ reg[2].kind = "patron"
    /\ reg[1].status = 201
    /\ reg[2].status = 400 /\ reg[2].error = "err.message"
    /\ Cardinality(WithEmail(EmailA)) = 1

Handles(ops) == memberRes = NoMemberResponse /\ memberReq'.op \in ops

\* C9: PUT /members/:id/student on a member with role patron responds 400 and
\* leaves the stored record unchanged.
C9_PatronUnchanged ==
    [][(/\ Handles({"PUT /members/:id/student"})
        /\ HasId(members, memberReq'.id)
        /\ ById(members, memberReq'.id).role = RolePatron)
       => /\ memberRes'.status = 400
          /\ members' = members]_vars

\* The role a profile route requires.
RequiredRole(op) == IF op = "PUT /members/:id/student" THEN RoleStudent ELSE RolePatron

\* C10: PUT /members/:id/student and /patron respond 400 when the target's role
\* is not the route's, 404 when no member has the identifier, and 200 only when
\* the role matches.
C10_RoleChecked ==
    [][(Handles({"PUT /members/:id/student", "PUT /members/:id/patron"})
        /\ memberReq'.id # MalformedId)
       => LET id == memberReq'.id
              required == RequiredRole(memberReq'.op)
          IN /\ HasId(members, id) /\ ById(members, id).role # required
                   => memberRes'.status = 400
             /\ ~HasId(members, id) => memberRes'.status = 404
             /\ memberRes'.status = 200
                   => HasId(members, id) /\ ById(members, id).role = required]_vars

\* The patron route answered 400 for a stored member whose role is student.
C10_Witness ==
    /\ memberReq.op = "PUT /members/:id/patron"
    /\ HasId(members, memberReq.id) /\ ById(members, memberReq.id).role = RoleStudent
    /\ memberRes.status = 400

\* A login body whose email no stored member has.
UnknownEmail(body) == Truthy(Get(body, "email")) /\ ~FindOneByEmail(members, Get(body, "email"))

\* A login body with the email of a stored member and a password that is not
\* the secret the member was created with.
KnownEmailWrongPassword(body) ==
    /\ Truthy(Get(body, "email")) /\ FindOneByEmail(members, Get(body, "email"))
    /\ Truthy(Get(body, "password")) /\ Get(body, "password") # PasswordPw

\* C11: for any store contents, a login with an unknown email and a login with
\* a known email and a wrong password get the same response, status 401 with
\* the same message, so the response does not tell whether the email is
\* registered.
C11_LoginIndistinguishable ==
    \A unknown, known \in LoginBodies :
        (/\ UnknownEmail(unknown) /\ Truthy(Get(unknown, "password"))
         /\ KnownEmailWrongPassword(known))
        => /\ LoginResponse(members, unknown).status = 401
           /\ LoginResponse(members, known) = LoginResponse(members, unknown)

\* The member fields the loan reads ask populate for, per route.
LoanUserFields ==
    {{"name", "email", "studentId", "role"}, {"name", "email"}, {"name", "email", "phone"}}

C13_PasswordsHashed ==
    \A i \in DOMAIN members :
        /\ members[i].password = BcryptHash(PasswordPw)
        /\ members[i].password # PasswordPw

-----------------------------------------------------------------------------
(* Properties of the loans router *)

\* The step in which the loans router answers a request of one of ops.
HandlesLoan(ops) == loanRes = NoLoanResponse /\ loanReq'.op \in ops

\* C14: once a loan's returned flag is true it stays true for as long as the
\* loan exists; no operation, PUT /loans/:id with any body included, moves a
\* loan from returned back to active.
C14_ReturnedIsFinal ==
    [][\A id \in 1..MaxLoans :
          (/\ HasId(loans, id) /\ ById(loans, id).returned = Bool(TRUE)
           /\ HasId(loans', id))
          => ById(loans', id).returned = Bool(TRUE)]_vars

\* C15: every loan created by POST /loans is stored active, returned = false
\* and isOverdue = false, whatever the request body contains.
C15_CreatedActive ==
    [][(HandlesLoan({"POST /loans"}) /\ Len(loans') = Len(loans) + 1)
       => /\ loans'[Len(loans')].returned = Bool(FALSE)
          /\ loans'[Len(loans')].isOverdue = Bool(FALSE)]_vars

\* C16: every stored loan with returned = true has a returnDate, and every
\* stored loan with returned = false has none.
C16_ReturnDateIffReturned ==
    \A i \in DOMAIN loans :
        (loans[i].returned = Bool(TRUE)) <=> (loans[i].returnDate # Undefined)

\* C17: GET /loans/reports/overdue returns only loans that have isOverdue =
\* true and returned = false at the time of the read, and its total is the
\* number of such loans; so a loan that was updated with returned = true and a
\* returnDate is in no later report.
C17_OverdueReport ==
    [][HandlesLoan({"GET /loans/reports/overdue"})
       => /\ loanRes'.status = 200
          /\ loanRes'.total = Len(OverdueLoans)
          /\ \A i \in DOMAIN loanRes'.data :
                /\ loanRes'.data[i].isOverdue = Bool(TRUE)
                /\ loanRes'.data[i].returned = Bool(FALSE)]_vars

-----------------------------------------------------------------------------
(* Properties of the operations on one document *)

MemberByIdOps == {"GET /members/:id", "PUT /members/:id", "DELETE /members/:id"}
BookByIdOps == {"GET /books/:id", "PUT /books/:id", "DELETE /books/:id"}
LoanByIdOps == {"GET /loans/:id", "PUT /loans/:id", "DELETE /loans/:id"}

\* The step in which the books router answers a request of one of ops.
HandlesBook(ops) == bookOpRes = NoBookResponse /\ bookOpReq'.op \in ops

\* C18: every operation that takes an identifier (GET, PUT, DELETE on
\* /members/:id, /books/:id, /loans/:id, and GET /loans/user/:userId) responds
\* 400 when the identifier is malformed, never 500.
C18_MalformedIdIs400 ==
    [][/\ (Handles(MemberByIdOps) /\ memberReq'.id = MalformedId)
             => memberRes'.status = 400
       /\ (HandlesBook(BookByIdOps) /\ bookOpReq'.id = MalformedId)
             => bookOpRes'.status = 400
       /\ (HandlesLoan(LoanByIdOps \cup {"GET /loans/user/:userId"})
           /\ loanReq'.id = MalformedId)
             => loanRes'.status = 400]_vars

C20_StoreFailureIs500 ==
    [][StoreFailure
       => /\ memberRes'.status \in {0, 500}
          /\ bookOpRes'.status \in {0, 500}
          /\ loanRes'.status \in {0, 500}]_vars

-----------------------------------------------------------------------------
(* Properties of the books router's writes *)

\* C21: no two stored books that have an isbn share it, while any number of
\* books may have none; a create or update that would duplicate an isbn
\* responds 400 and leaves the books collection unchanged.
C21_IsbnUnique ==
    [][/\ \A i, j \in DOMAIN books' :
             (i # j /\ books'[i].isbn # Undefined) => books'[i].isbn # books'[j].isbn
       /\ \A body \in BookBodies :
             (/\ bookOpRes = NoBookResponse /\ CreateBook(body, FALSE)
              /\ IsbnTaken(books, Get(body, "isbn"), MalformedId))
             => bookOpRes'.status = 400 /\ books' = books
       /\ \A id \in 1..MaxBookIds, body \in BookChanges :
             (/\ bookOpRes = NoBookResponse /\ UpdateBook(id, body)
              /\ HasId(books, id) /\ IsbnTaken(books, Get(body, "isbn"), id))
             => bookOpRes'.status = 400 /\ books' = books]_vars

\* Two books without an isbn are stored next to one that has an isbn, and an
\* update that would give a second book that isbn was refused.
C21_Witness ==
    /\ Len(books) = 3
    /\ Cardinality({i \in DOMAIN books : books[i].isbn = Undefined}) = 2
    /\ bookOpReq.op = "PUT /books/:id" /\ HasId(books, bookOpReq.id)
    /\ ById(books, bookOpReq.id).isbn = Undefined
    /\ bookOpRes.status = 400

\* C22: after any sequence of book operations every stored book has
\* quantity >= 0.
C22_QuantityNonNegative ==
    \A i \in DOMAIN books : books[i].quantity.t = "number" /\ books[i].quantity.n >= 0

-----------------------------------------------------------------------------
(* Further properties of the members router *)

\* C23: after any sequence of member operations every stored member's role is
\* one of student, patron, admin.
C23_RoleInEnum == \A i \in DOMAIN members : members[i].role \in RoleEnum

\* The step in which the registration of connection p is answered.
Answered(p) == reg[p].pc # "done" /\ reg'[p].pc = "done"

\* C24: a student registration stores a member with role student and a patron
\* registration one with role patron, whatever role the body names; when a
\* required field is missing or the email is already registered the response
\* is 400 and no member is created or changed.
C24_RegistrationRoleAndRefusal ==
    [][\A p \in RegProcs :
          Answered(p) =>
             /\ reg'[p].status \in {201, 400}
             /\ reg'[p].status = 201 =>
                   /\ Len(members') = Len(members) + 1
                   /\ SubSeq(members', 1, Len(members)) = members
                   /\ reg'[p].kind = "student" => members'[Len(members')].role = RoleStudent
                   /\ reg'[p].kind = "patron" => members'[Len(members')].role = RolePatron
             /\ (\/ \E f \in RequiredFields(reg'[p].kind) : ~Truthy(reg'[p].local[f])
                 \/ FindOneByEmail(members, reg'[p].local["email"]))
                   => reg'[p].status = 400
             /\ reg'[p].status = 400 => members' = members]_vars

\* A patron registration whose body named the role admin was stored as a
\* patron next to an earlier member.
C24_Witness ==
    /\ reg[1].pc = "done" /\ reg[1].kind = "patron" /\ reg[1].status = 201
    /\ reg[1].local["name"] = RoleNamingBody["name"]
    /\ Len(members) = 2 /\ members[2].email = EmailB /\ members[2].role = RolePatron

-----------------------------------------------------------------------------
(* Further properties of the loans router *)

\* The loan with this id refers to a stored member and a stored book.
RefersToExisting(id) ==
    /\ HasId(loans, id)
    /\ ById(loans, id).userId.t = "number" /\ HasId(members, ById(loans, id).userId.n)
    /\ ById(loans, id).bookId.t = "number" /\ HasId(books, ById(loans, id).bookId.n)

\* C25: a read of a loan whose userId and bookId refer to an existing member
\* and an existing book succeeds and returns the loan with userId replaced by
\* the member's projection and bookId by the book's projection.
C25_LoanReadPopulates ==
    [][HandlesLoan({"GET /loans/:id"}) /\ RefersToExisting(loanReq'.id)
          => /\ loanRes'.status = 200
             /\ Len(loanRes'.loan) = 1
             /\ loanRes'.loan[1].userId = Obj(ById(loans, loanReq'.id).userId.n)
             /\ loanRes'.loan[1].bookId = Obj(ById(loans, loanReq'.id).bookId.n)]_vars

-----------------------------------------------------------------------------
(* Process start and shutdown (server.js) *)

\* The process after server.js has been loaded: mongoose.connect is pending,
\* the SIGINT handler is registered, nothing listens, the process runs
\* (exit = -1).
Starting == [conn |-> "connecting", listening |-> FALSE, exit |-> -1, sigint |-> FALSE]

MaxArrivals == 6

\* The connect promise resolves: the then-callback calls app.listen.
ConnectSucceeds ==
    /\ server.exit = -1 /\ server.conn = "connecting"
    /\ server' = [server EXCEPT !.conn = "connected", !.listening = TRUE]
    /\ UNCHANGED <<arrivals, storeVars, utilVars>>

\* The connect promise rejects: the catch-callback calls process.exit(1).
ConnectFails ==
    /\ server.exit = -1 /\ server.conn = "connecting"
    /\ server' = [server EXCEPT !.conn = "failed", !.exit = 1]
    /\ UNCHANGED <<arrivals, storeVars, utilVars>>

\* SIGINT arrives: the handler calls mongoose.connection.close() and awaits it.
Sigint ==
    /\ server.exit = -1 /\ ~server.sigint
    /\ server' = [server EXCEPT !.sigint = TRUE]
    /\ UNCHANGED <<arrivals, storeVars, utilVars>>

\* close() completes.  On a connection that is still connecting the driver
\* either waits for it to open or closes it at once; both are allowed here.
CloseConnection ==
    /\ server.exit = -1 /\ server.sigint
    /\ server.conn \in {"connecting", "connected"}
    /\ server' = [server EXCEPT !.conn = "closed"]
    /\ UNCHANGED <<arrivals, storeVars, utilVars>>

\* Faulty variant: the handler does not await close() before process.exit(0).
SigintExitNoAwait ==
    /\ server.exit = -1 /\ server.sigint
    /\ server' = [server EXCEPT !.exit = 0, !.listening = FALSE]
    /\ UNCHANGED <<arrivals, storeVars, utilVars>>

\* The handler resumes after the awaited close() and calls process.exit(0).
SigintExit ==
    /\ server.exit = -1 /\ server.sigint /\ server.conn = "closed"
    /\ server' = [server EXCEPT !.exit = 0, !.listening = FALSE]
    /\ UNCHANGED <<arrivals, storeVars, utilVars>>

\* A client tries to connect to the port: accepted when the process listens.
Arrive ==
    /\ arrivals.accepted + arrivals.refused < MaxArrivals
    /\ arrivals' = IF server.listening THEN [arrivals EXCEPT !.accepted = @ + 1]
                   ELSE [arrivals EXCEPT !.refused = @ + 1]
    /\ UNCHANGED <<server, storeVars, utilVars>>

InitServer ==
    /\ BooksIdle /\ MembersIdle /\ BookOpsIdle /\ LoansIdle /\ UtilIdle
    /\ server = Starting /\ arrivals = NoArrivals

NextServer ==
    \/ ConnectSucceeds
    \/ ConnectFails
    \/ Sigint
    \/ CloseConnection
    \/ SigintExit
    \/ Arrive

SpecServer == InitServer /\ [][NextServer]_vars

\* C26: the server begins accepting requests only after the store connection
\* has been established, exits with a failure code without ever listening when
\* the connection fails, and on SIGINT closes the store connection before the
\* process exits.
C26_StartAndShutdown ==
    /\ [](/\ server.listening => server.conn \in {"connected", "closed"}
          /\ arrivals.accepted > 0 => server.conn \in {"connected", "closed"}
          /\ server.conn = "failed" =>
                server.exit = 1 /\ ~server.listening /\ arrivals.accepted = 0
          /\ server.exit = 0 => server.sigint /\ server.conn = "closed")
    /\ [][/\ arrivals'.accepted > arrivals.accepted =>
                server.listening /\ server.conn \in {"connected", "closed"}
          /\ server'.listening /\ ~server.listening => server'.conn = "connected"
          /\ server.conn = "failed" => server'.conn = "failed" /\ ~server'.listening
          /\ server'.exit = 0 /\ server.exit # 0 => server.conn = "closed"]_vars

\* The process served requests, received SIGINT, closed the connection and
\* exited with code 0.
C26_Witness ==
    /\ server.exit = 0 /\ server.sigint /\ server.conn = "closed"
    /\ arrivals.accepted > 0

\* The connection failed and the process exited with code 1 having refused
\* every client.
C26_WitnessFailure ==
    /\ server.conn = "failed" /\ server.exit = 1 /\ arrivals.refused > 0

-----------------------------------------------------------------------------
(* The list routes against the helpers of utils/dbUtils.js *)

\* The store casts the value of a String path of a filter to a string.
CastStringPath(filter, field) ==
    IF field \in DOMAIN filter /\ filter[field].t = "boolean"
    THEN Put(filter, field, IF filter[field].n = 1 THEN StrTrue ELSE StrFalse)
    ELSE filter

\* Two filters under AND: the constraints of both.
AndFilters(f, g) ==
    [k \in DOMAIN f \cup DOMAIN g |-> IF k \in DOMAIN g THEN g[k] ELSE f[k]]

SameFilter(f, g) == DOMAIN f = DOMAIN g /\ \A k \in DOMAIN f : f[k] = g[k]

\* What the helpers give for a request of GET /books.
HelperFilter(query) ==
    AndFilters(buildFilter(query, <<"category", "available">>),
               buildSearchFilter(Get(query, "search"), <<"title", "author">>))

\* C27: for every request the predicate a list route applies to the store
\* equals buildFilter over the resource's allow-list composed with
\* buildSearchFilter under AND, and the page, limit and skip it applies equal
\* getPaginationParams of the same query; in particular for empty-string
\* values, for boolean fields given a value other than true/false, and for
\* string fields given true/false.
C27_RouteEqualsHelpers ==
    Responded =>
        /\ SameFilter(CastStringPath(BookFilter(bookReq), "category"),
                      CastStringPath(HelperFilter(bookReq), "category"))
        /\ parseInt(ListPage(bookReq)) = getPaginationParams(bookReq).page
        /\ parseInt(ListLimit(bookReq)) = getPaginationParams(bookReq).limit
        /\ ListSkip(bookReq) = getPaginationParams(bookReq).skip

\* The same statement for the filter alone, on requests without page and limit.
C27_FilterEqualsHelpers ==
    Responded /\ Get(bookReq, "page") = Undefined /\ Get(bookReq, "limit") = Undefined =>
        SameFilter(CastStringPath(BookFilter(bookReq), "category"),
                   CastStringPath(HelperFilter(bookReq), "category"))

\* C28: a POST /loans that responds with an error status stores no loan: the
\* loans collection after the request equals the collection before it, also
\* when the failure occurs in the populate step that follows the save.
C28_ErrorStoresNoLoan ==
    [][HandlesLoan({"POST /loans"}) /\ loanRes'.status >= 400 => loans' = loans]_vars

\* The count a facet of the summary reports, when it reports one.
ReportsCount(facet) == Len(facet) = 1

\* C29: for every state of the loans collection GET /loans/stats/summary
\* reports an active, a returned and an overdue count with active + returned
\* equal to the number of loans and overdue <= active; a category with no
\* loans is reported as a count of 0.
C29_SummaryCounts ==
    loanReq.op = "GET /loans/stats/summary" =>
        /\ loanRes.status = 200
        /\ ReportsCount(loanRes.stats.activeLoans)
        /\ ReportsCount(loanRes.stats.returnedLoans)
        /\ ReportsCount(loanRes.stats.overdueLoans)
        /\ loanRes.stats.activeLoans[1] + loanRes.stats.returnedLoans[1] = Len(loans)
        /\ loanRes.stats.overdueLoans[1] <= loanRes.stats.activeLoans[1]

-----------------------------------------------------------------------------
(* Paging through a list *)

\* The requests of C30: a filter and a limit L >= 1 in decimal.
PartitionLimits == {1, 2}
PartitionQueries ==
    {QueryOf([limit |-> Str(DecimalDigits(l)), category |-> c]) :
        l \in PartitionLimits, c \in {Undefined, Str(<<"F">>)}}

\* The response to the request for page p, the store returning the order sorted.
PageResponse(query, p, sorted) ==
    ListResponse(sorted, Put(query, "page", Str(DecimalDigits(p))), TRUE)

\* C30: for GET /books over an unchanged collection with a fixed filter and a
\* fixed limit L >= 1, the pages 1..ceil(total / L) partition the matching
\* documents: every matching document appears on exactly one page, each page
\* but the last holds exactly L items, and a page beyond the last returns
\* empty data with the same total.
C30_PagesPartition ==
    \A query \in PartitionQueries :
        LET L == parseInt(query["limit"]).n
            orders == FindBooks(BookFilter(query))
            total == Len(CHOOSE s \in orders : TRUE)
            pages == CeilQuotient(total, L)
        IN \A sorted \in [1..(pages + 1) -> orders] :
              LET Page(p) == PageResponse(query, p, sorted[p])
                  Places(id) == {<<p, i>> \in (1..pages) \X (1..L) :
                                    i <= Len(Page(p).data) /\ Page(p).data[i]._id = id}
              IN /\ \A p \in 1..(pages + 1) :
                       Page(p).status = 200 /\ Page(p).pagination.total = Num(total)
                 /\ \A i \in 1..total : Cardinality(Places(sorted[1][i]._id)) = 1
                 /\ \A p \in 1..(pages - 1) : Len(Page(p).data) = L
                 /\ Page(pages + 1).data = <<>>

\* The same statement for collections whose documents were created at
\* different instants.
DistinctInstants ==
    \A i, j \in DOMAIN books : books[i].createdAt = books[j].createdAt => i = j

C30_PagesPartitionWithoutTies == DistinctInstants => C30_PagesPartition

====
